---- MODULE Spec2Model ----
(***************************************************************************)
(* A model of src/app.py: the catalog loader, the match and rank step of   *)
(* process(), the identity store (users.json), the activity log            *)
(* (logs.json) and the session, one action per request handler.            *)
(*                                                                         *)
(* Text is a sequence of one-character strings, so that strip(), lower(),  *)
(* title(), split() and the substring test `in` are computed, not assumed. *)
(* A float is a record [nan, v]: v is the value in the smallest currency   *)
(* unit, nan marks the IEEE not-a-number that pandas puts in an empty      *)
(* cell.                                                                   *)
(***************************************************************************)
EXTENDS Integers, Sequences, FiniteSets, TLC

VARIABLES
    datasets,          \* the datasets folder: the files os.listdir() enumerates, in its order
    PRODUCT_DATABASE,  \* the in-memory catalog (module global)
    CSV_FILES,         \* the module global listing the .csv file names
    model,             \* TRUE: MobileNetV2 loaded; FALSE: model is None
    users,             \* content of users.json: email -> account
    logs,              \* content of logs.json: sequence of entries
    session,           \* the browser's Flask session: <<>> (empty) or a record
    clock,             \* datetime.now(), as the number of timestamps taken so far
    req,               \* the last event: the request a handler served, or the operator's edit
    resp,              \* the response the last handler returned
    io,                \* users.json and logs.json as files: the state of the text, and
                       \* whether open() for reading and writing succeeds
    threads            \* the requests the threaded server is serving step by step:
                       \* client -> the handler's position and locals

vars == <<datasets, PRODUCT_DATABASE, CSV_FILES, model, users, logs, session, clock, req, resp,
          io, threads>>

-----------------------------------------------------------------------------
(* Python str methods *)

UPPER == <<"A","B","C","D","E","F","G","H","I","J","K","L","M",
           "N","O","P","Q","R","S","T","U","V","W","X","Y","Z">>

LOWER == <<"a","b","c","d","e","f","g","h","i","j","k","l","m",
           "n","o","p","q","r","s","t","u","v","w","x","y","z">>

UpperSet == { UPPER[i] : i \in 1..26 }

LowerSet == { LOWER[i] : i \in 1..26 }

ToLowerTable == [c \in UpperSet |-> LOWER[CHOOSE i \in 1..26 : UPPER[i] = c]]

ToUpperTable == [c \in LowerSet |-> UPPER[CHOOSE i \in 1..26 : LOWER[i] = c]]

IsUpper(c) == c \in UpperSet

IsLower(c) == c \in LowerSet

IsCased(c) == IsUpper(c) \/ IsLower(c)

IsSpace(c) == c \in {" ", "\t", "\n"}

LowerChar(c) == IF IsUpper(c) THEN ToLowerTable[c] ELSE c

UpperChar(c) == IF IsLower(c) THEN ToUpperTable[c] ELSE c

\* str.lower()
Lower(s) == [i \in 1..Len(s) |-> LowerChar(s[i])]

\* str.title(): a cased character is upper-cased after an uncased one (or at the
\* start) and lower-cased after a cased one
Title(s) ==
    [i \in 1..Len(s) |->
        IF i > 1 /\ IsCased(s[i-1]) THEN LowerChar(s[i]) ELSE UpperChar(s[i])]

RECURSIVE LStrip(_)
LStrip(s) == IF s # <<>> /\ IsSpace(Head(s)) THEN LStrip(Tail(s)) ELSE s

RECURSIVE RStrip(_)
RStrip(s) ==
    IF s # <<>> /\ IsSpace(s[Len(s)]) THEN RStrip(SubSeq(s, 1, Len(s) - 1)) ELSE s

\* str.strip()
Strip(s) == RStrip(LStrip(s))

\* str.split(): the maximal runs of non-whitespace characters, in order
RECURSIVE SplitFrom(_, _, _)
SplitFrom(s, word, acc) ==
    IF s = <<>>
    THEN IF word = <<>> THEN acc ELSE Append(acc, word)
    ELSE IF IsSpace(Head(s))
         THEN SplitFrom(Tail(s), <<>>, IF word = <<>> THEN acc ELSE Append(acc, word))
         ELSE SplitFrom(Tail(s), Append(word, Head(s)), acc)

Split(s) == SplitFrom(s, <<>>, <<>>)

\* str.replace(old, new) for single characters
Replace(s, old, new) == [i \in 1..Len(s) |-> IF s[i] = old THEN new ELSE s[i]]

\* Python's `t in s` for strings
Contains(s, t) ==
    \E i \in 0..(Len(s) - Len(t)) : SubSeq(s, i + 1, i + Len(t)) = t

-----------------------------------------------------------------------------
(* Floats *)

NaN == [nan |-> TRUE, v |-> 0]

Num(n) == [nan |-> FALSE, v |-> n]

\* a < b on floats: False whenever either side is NaN
FloatLT(a, b) == ~a.nan /\ ~b.nan /\ a.v < b.v

\* a == b on floats: NaN equals nothing, itself included
FloatEQ(a, b) == ~a.nan /\ ~b.nan /\ a.v = b.v

-----------------------------------------------------------------------------
(* Text constants of the program *)

S_unknown == <<"u","n","k","n","o","w","n">>

S_Unknown == <<"U","n","k","n","o","w","n">>

S_Generic == <<"G","e","n","e","r","i","c">>

S_nan == <<"n","a","n">>

ADMIN_EMAIL == <<"a","d","m","i","n","@","e","p","c",".","c","o","m">>

ADMIN_PASSWORD == <<"a","d","m","i","n","1","2","3">>

S_admin == <<"a","d","m","i","n">>

S_SystemAdministrator == <<"S","y","s","t","e","m"," ","A","d","m","i","n","i","s","t","r","a","t","o","r">>

-----------------------------------------------------------------------------
(* The catalog loader: load_product_database()                              *)
(*                                                                          *)
(* A file of the folder is [base, csv, status, cols, rows]: its name        *)
(* without extension, whether the name ends in ".csv", whether              *)
(* pd.read_csv() returns ("ok") or raises ("error"), the normalised         *)
(* column names, and the rows. A text cell is [na, s] (na: the cell is      *)
(* empty, pandas gives NaN); a price cell is [k, v] with k "num" (a         *)
(* number), "na" (empty) or "text" (text float() cannot convert). The       *)
(* columns url, rating, model_id, stock, discount_percent, description and  *)
(* image_url are copied into the record by the same str()/get() pattern     *)
(* and read by no handler logic modelled here; they are left out.           *)

Text(s) == [na |-> FALSE, s |-> s]

NaCell == [na |-> TRUE, s |-> <<>>]

PNum(n) == [k |-> "num", v |-> n]

PNa == [k |-> "na", v |-> 0]

PText == [k |-> "text", v |-> 0]

AllCols == {"name", "price", "category", "brand"}

\* str(value) of a cell value: NaN prints as "nan"
Str(cell) == IF cell.na THEN S_nan ELSE cell.s

\* row.get(col, default): the default only when the column does not exist
RowGet(row, cols, col, default) == IF col \in cols THEN row[col] ELSE Text(default)

\* float(row['price']) succeeds: a number or NaN; text raises ValueError
FloatOk(pcell) == pcell.k # "text"

ToFloat(pcell) == IF pcell.k = "num" THEN Num(pcell.v) ELSE NaN

\* 'name' not in row or 'price' not in row: a test on the row's index,
\* that is, on the columns of the file
RowSkipped(row, cols) == ~("name" \in cols) \/ ~("price" \in cols)

\* a counter that starts at 0
NextIdZeroBased(products_list) == Len(products_list)

\* "id": len(products_list) + 1
NextId(products_list) == Len(products_list) + 1

\* os.path.splitext(filename)[0].title()
StoreName(file) == Title(file.base)

MakeProduct(row, cols, store_name, products_list) ==
    [id       |-> NextId(products_list),
     name     |-> Strip(Str(row.name)),
     category |-> Lower(Str(RowGet(row, cols, "category", S_unknown))),
     store    |-> store_name,
     price    |-> ToFloat(row.price),
     brand    |-> Title(Str(RowGet(row, cols, "brand", S_Generic)))]

\* the body of `for _, row in df.iterrows()` from row i on; an exception
\* (float() of text) leaves the loop and the try block, keeping what was
\* appended before it
RECURSIVE LoadRowsFrom(_, _, _)
LoadRowsFrom(file, i, products_list) ==
    IF i > Len(file.rows) THEN products_list
    ELSE LET row == file.rows[i] IN
         IF RowSkipped(row, file.cols)
         THEN LoadRowsFrom(file, i + 1, products_list)
         ELSE IF ~FloatOk(row.price)
              THEN products_list
              ELSE LoadRowsFrom(file, i + 1,
                       Append(products_list,
                              MakeProduct(row, file.cols, StoreName(file), products_list)))

\* one iteration of `for filename in csv_files`
LoadFile(file, products_list) ==
    IF file.status = "error" THEN products_list
    ELSE LoadRowsFrom(file, 1, products_list)

RECURSIVE LoadFilesFrom(_, _, _)
LoadFilesFrom(csv_files, j, products_list) ==
    IF j > Len(csv_files) THEN products_list
    ELSE LoadFilesFrom(csv_files, j + 1, LoadFile(csv_files[j], products_list))

IsCsv(file) == file.csv

\* [f for f in os.listdir(DATASETS_FOLDER) if f.endswith('.csv')]
ListCsv(folder) == SelectSeq(folder, IsCsv)

load_product_database(folder) ==
    LET csv_files == ListCsv(folder) IN
    IF csv_files = <<>> THEN <<>>
    ELSE LoadFilesFrom(csv_files, 1, <<>>)

\* the names CSV_FILES holds
CsvNames(folder) == [j \in 1..Len(ListCsv(folder)) |-> ListCsv(folder)[j].base]

-----------------------------------------------------------------------------
(* list.sort(key=lambda x: x['price']) as CPython runs it on a list of     *)
(* fewer than 64 elements: count_run() takes the leading run (reversing a  *)
(* strictly descending one), binarysort() inserts every later element by   *)
(* binary search. The only comparison is key < key, so the result is what  *)
(* the float comparison makes of it.                                       *)

PriceLT(x, y) == FloatLT(x.price, y.price)

Reverse(a) == [i \in 1..Len(a) |-> a[Len(a) + 1 - i]]

\* length of the leading run, given that its first n elements are in it
RECURSIVE RunLength(_, _, _)
RunLength(a, n, descending) ==
    IF n < Len(a) /\ (PriceLT(a[n + 1], a[n]) <=> descending)
    THEN RunLength(a, n + 1, descending)
    ELSE n

RECURSIVE BinarySearch(_, _, _, _)
BinarySearch(a, pivot, l, r) ==
    LET p == l + ((r - l) \div 2)
        l2 == IF PriceLT(pivot, a[p]) THEN l ELSE p + 1
        r2 == IF PriceLT(pivot, a[p]) THEN p ELSE r
    IN  IF l2 < r2 THEN BinarySearch(a, pivot, l2, r2) ELSE l2

RECURSIVE BinarySort(_, _)
BinarySort(a, start) ==
    IF start > Len(a) THEN a
    ELSE LET l == BinarySearch(a, a[start], 1, start)
         IN  BinarySort(SubSeq(a, 1, l - 1) \o <<a[start]>> \o SubSeq(a, l, start - 1)
                            \o SubSeq(a, start + 1, Len(a)),
                        start + 1)

SortByPrice(a) ==
    IF Len(a) < 2 THEN a
    ELSE LET descending == PriceLT(a[2], a[1])
             n == RunLength(a, 2, descending)
             run == IF descending
                    THEN Reverse(SubSeq(a, 1, n)) \o SubSeq(a, n + 1, Len(a))
                    ELSE a
         IN  BinarySort(run, n + 1)

-----------------------------------------------------------------------------
(* The match step of process() *)

\* decoded_preds[0][1].replace('_', ' ').title(), or "Unknown" when model is None
Prediction(model_loaded, raw) ==
    IF model_loaded THEN Title(Replace(raw, "_", " ")) ELSE S_Unknown

\* request.form.get('keywords', '').lower().strip()
NormKeywords(text) == Strip(Lower(text))

\* a category test in one direction only
CatMatchOneWay(product, label) ==
    Contains(Lower(product.category), Lower(label))

\* cat_match
CatMatch(product, label) ==
    LET p_cat == Lower(product.category)
    IN  Contains(p_cat, Lower(label)) \/ Contains(Lower(label), p_cat)

TargetStr(product) ==
    Lower(product.name \o <<" ">> \o product.brand \o <<" ">> \o product.category)

\* key_match, for non-empty keywords
KeyMatch(product, keywords) ==
    LET key_words == Split(keywords)
    IN  \E k \in 1..Len(key_words) :
            key_words[k] # <<>> /\ Contains(TargetStr(product), key_words[k])

\* a selection in which keywords do not take precedence over the label
SelectedEither(product, label, keywords) ==
    (keywords # <<>> /\ KeyMatch(product, keywords)) \/ CatMatch(product, label)

\* the if/else that appends the product to matches
Selected(product, label, keywords) ==
    IF keywords # <<>> THEN KeyMatch(product, keywords) ELSE CatMatch(product, label)

\* the loop over PRODUCT_DATABASE
FindMatches(catalog, label, keywords) ==
    LET Keep(product) == Selected(product, label, keywords)
    IN  SelectSeq(catalog, Keep)

\* matches after the sort
RankedMatches(catalog, label, keywords) ==
    SortByPrice(FindMatches(catalog, label, keywords))


-----------------------------------------------------------------------------
(* The identity store, the activity log and the session *)

\* hashlib.sha256(text.encode()).hexdigest(): a collision-free digest
Sha256(text) == <<"sha256", text>>

\* salt + ':' + sha256(salt + password); the stored string splits at ':' into
\* exactly these two parts
hash_password(password, salt) == [salt |-> salt, hash |-> Sha256(salt \o password)]

verify_password(stored_password, provided_password) ==
    Sha256(stored_password.salt \o provided_password) = stored_password.hash

\* a timestamp is <<t>>; None is <<>>
NoTime == <<>>

Time(t) == <<t>>

\* the account init_users() writes; it has no 'searches' key
AdminAccount(salt, now) ==
    [username      |-> S_admin,
     password      |-> hash_password(ADMIN_PASSWORD, salt),
     full_name     |-> S_SystemAdministrator,
     role          |-> "admin",
     created_at    |-> Time(now),
     last_login    |-> NoTime,
     uploads_count |-> 0]

\* a registration that creates administrators
NewAccountAsAdmin(username, full_name, password, salt, now) ==
    [username      |-> username,
     password      |-> hash_password(password, salt),
     full_name     |-> full_name,
     role          |-> "admin",
     created_at    |-> Time(now),
     last_login    |-> NoTime,
     uploads_count |-> 0,
     searches      |-> <<>>]

\* the account register() writes
NewAccount(username, full_name, password, salt, now) ==
    [username      |-> username,
     password      |-> hash_password(password, salt),
     full_name     |-> full_name,
     role          |-> "user",
     created_at    |-> Time(now),
     last_login    |-> NoTime,
     uploads_count |-> 0,
     searches      |-> <<>>]

\* 'user_email' in session
LoggedIn(sess) == "user_email" \in DOMAIN sess

EmptySession == <<>>

LOG_CAP == 1000

HISTORY_CAP == 50

\* logs[-n:] and searches[-n:]
LastN(seq, n) == IF Len(seq) > n THEN SubSeq(seq, Len(seq) - n + 1, Len(seq)) ELSE seq

LogEntry(now, user_email, action, details, ip) ==
    [timestamp |-> Time(now), user |-> user_email, action |-> action,
     details |-> details, ip |-> ip]

\* a journal cut one entry too late: if len(logs) > 1001
log_activity_late_cut(journal, now, user_email, action, details, ip) ==
    LET appended == Append(journal, LogEntry(now, user_email, action, details, ip))
    IN  IF Len(appended) > LOG_CAP + 1 THEN LastN(appended, LOG_CAP) ELSE appended

\* log_activity(): the journal after the call, from the journal read
log_activity(journal, now, user_email, action, details, ip) ==
    LET appended == Append(journal, LogEntry(now, user_email, action, details, ip))
    IN  IF Len(appended) > LOG_CAP THEN LastN(appended, LOG_CAP) ELSE appended

(* Requests and responses *)

Flash(cat, msg) == [cat |-> cat, msg |-> msg]

NoFlash == Flash("", "")

\* the query string of GET /: global_best_price is the text '' (k = "empty"),
\* 'None' (k = "None") or the repr of a float (k = "float", f the float)
BestEmpty == [k |-> "empty", f |-> NaN]

BestNone == [k |-> "None", f |-> NaN]

BestFloat(price) == [k |-> "float", f |-> price]

NoArgs == [prediction |-> <<>>, matches |-> <<>>, global_best_price |-> BestEmpty]

Redirect(to, flash) ==
    [kind |-> "redirect", to |-> to, flash |-> flash, args |-> NoArgs,
     shown |-> <<>>, badges |-> <<>>]

\* global_best_price: matches[0]['price'] after the sort, None for no match
BestPrice(matches) == IF matches # <<>> THEN BestFloat(matches[1].price) ELSE BestNone

REMOTE_ADDR == "127.0.0.1"

\* an email that is trimmed but keeps its casing
NormEmailNoLower(text) == Strip(text)

\* request.form.get('email', '').strip().lower()
NormEmail(text) == Lower(Strip(text))

\* not all([email, username, full_name, password])
AnyBlank(email, username, full_name, password) ==
    email = <<>> \/ username = <<>> \/ full_name = <<>> \/ password = <<>>

MIN_PASSWORD == 6

\* a length test that lets five characters through
PasswordTooShortOffByOne(password) == Len(password) < MIN_PASSWORD - 1

\* len(password) < 6
PasswordTooShort(password) == Len(password) < MIN_PASSWORD

\* secrets.token_hex(16): a fresh random salt, all of one length
Salts == { <<"0","0">>, <<"f","f">> }

-----------------------------------------------------------------------------
(* POST /register *)

register(form) ==
    LET email == NormEmail(form.email)
        username == Strip(form.username)
        full_name == Strip(form.full_name)
        password == form.password
    IN  /\ req' = [op |-> "register", form |-> form]
        /\ UNCHANGED <<datasets, PRODUCT_DATABASE, CSV_FILES, model, session>>
        /\ IF AnyBlank(email, username, full_name, password)
           THEN /\ resp' = Redirect("register", Flash("danger", "All fields are required"))
                /\ UNCHANGED <<users, logs, clock>>
           ELSE IF password # form.confirm_password
           THEN /\ resp' = Redirect("register", Flash("danger", "Passwords do not match"))
                /\ UNCHANGED <<users, logs, clock>>
           ELSE IF PasswordTooShort(password)
           THEN /\ resp' = Redirect("register",
                                    Flash("danger", "Password must be at least 6 characters"))
                /\ UNCHANGED <<users, logs, clock>>
           ELSE IF email \in DOMAIN users
           THEN /\ resp' = Redirect("register", Flash("danger", "Email already registered"))
                /\ UNCHANGED <<users, logs, clock>>
           ELSE /\ \E salt \in Salts :
                       users' = (email :> NewAccount(username, full_name, password, salt, clock))
                                    @@ users
                /\ logs' = log_activity(logs, clock, email, "REGISTER",
                                        <<"New user", username>>, REMOTE_ADDR)
                /\ clock' = clock + 1
                /\ resp' = Redirect("login",
                                    Flash("success", "Registration successful! Please login"))

-----------------------------------------------------------------------------
(* POST /login *)

\* a login that tells an unknown email from a wrong password
UnknownEmailFlashDistinct == Flash("danger", "Email not registered")

\* flash('Invalid email or password', 'danger') of the unknown-email branch
UnknownEmailFlash == Flash("danger", "Invalid email or password")

\* the response to an email that is not a key of the store
UnknownEmailResponse == Redirect("login", UnknownEmailFlash)

\* the response to a password that does not verify
WrongPasswordResponse == Redirect("login", Flash("danger", "Invalid email or password"))

\* a session that takes every account for a plain user
LoginSessionOfUser(email, account) ==
    [user_email |-> email, user_name |-> account.username,
     full_name |-> account.full_name, role |-> "user"]

\* session['user_email'], ['user_name'], ['full_name'], ['role'] as login()
\* sets them from the account it loaded
LoginSession(email, account) ==
    [user_email |-> email, user_name |-> account.username,
     full_name |-> account.full_name, role |-> account.role]

login(form) ==
    LET email == NormEmail(form.email)
        password == form.password
    IN  /\ req' = [op |-> "login", form |-> form]
        /\ UNCHANGED <<datasets, PRODUCT_DATABASE, CSV_FILES, model>>
        /\ IF email = <<>> \/ password = <<>>
           THEN /\ resp' = Redirect("login",
                                    Flash("danger", "Email and password are required"))
                /\ UNCHANGED <<users, logs, session, clock>>
           ELSE IF email \notin DOMAIN users
           THEN /\ resp' = UnknownEmailResponse
                /\ UNCHANGED <<users, logs, session, clock>>
           ELSE IF ~verify_password(users[email].password, password)
           THEN /\ resp' = WrongPasswordResponse
                /\ UNCHANGED <<users, logs, session, clock>>
           ELSE /\ users' = [users EXCEPT ![email].last_login = Time(clock)]
                /\ session' = LoginSession(email, users[email])
                /\ logs' = log_activity(logs, clock, email, "LOGIN",
                                        <<"Successful login from", REMOTE_ADDR>>, REMOTE_ADDR)
                /\ clock' = clock + 1
                /\ resp' = Redirect(IF users[email].role = "admin"
                                    THEN "admin_dashboard" ELSE "index",
                                    Flash("success", "Welcome back"))

-----------------------------------------------------------------------------
(* GET /logout *)

\* a logout that logs the event and leaves the session as it is
logout_keeps_session ==
    /\ req' = [op |-> "logout", form |-> <<>>]
    /\ UNCHANGED <<datasets, PRODUCT_DATABASE, CSV_FILES, model, users, session>>
    /\ IF LoggedIn(session)
       THEN /\ logs' = log_activity(logs, clock, session.user_email, "LOGOUT",
                                    <<"User logged out">>, REMOTE_ADDR)
            /\ clock' = clock + 1
       ELSE UNCHANGED <<logs, clock>>
    /\ resp' = Redirect("index", Flash("info", "You have been logged out"))

\* logout(): the LOGOUT entry and session.clear() when the session names a
\* user, the same redirect in both cases
logout ==
    /\ req' = [op |-> "logout", form |-> <<>>]
    /\ UNCHANGED <<datasets, PRODUCT_DATABASE, CSV_FILES, model, users>>
    /\ IF LoggedIn(session)
       THEN /\ logs' = log_activity(logs, clock, session.user_email, "LOGOUT",
                                    <<"User logged out">>, REMOTE_ADDR)
            /\ session' = EmptySession
            /\ clock' = clock + 1
       ELSE UNCHANGED <<logs, session, clock>>
    /\ resp' = Redirect("index", Flash("info", "You have been logged out"))

-----------------------------------------------------------------------------
(* POST /process *)

\* a decorator that sends the visitor to the home page
LoginRequiredResponseToIndex ==
    Redirect("index", Flash("warning", "Please login to access this page"))

\* login_required: flash and redirect(url_for('login'))
LoginRequiredResponse ==
    Redirect("login", Flash("warning", "Please login to access this page"))

\* a history entry that does not count the matches
SearchEntryUncounted(now, label, keywords, matches, filename) ==
    [timestamp |-> Time(now), category |-> label, keywords |-> keywords,
     matches_count |-> 0, image |-> filename]

\* the search-history entry; the stored image name is the upload's file name
\* (its uuid prefix is left out)
SearchEntry(now, label, keywords, matches, filename) ==
    [timestamp |-> Time(now), category |-> label, keywords |-> keywords,
     matches_count |-> Len(matches), image |-> filename]

\* a history cut that keeps the first entries, not the last
AppendSearchKeepOldest(account, entry) ==
    LET before == IF "searches" \in DOMAIN account THEN account.searches ELSE <<>>
        appended == Append(before, entry)
        after == IF Len(appended) > HISTORY_CAP
                 THEN SubSeq(appended, 1, HISTORY_CAP) ELSE appended
    IN  [k \in (DOMAIN account) \cup {"searches"} |->
            IF k = "searches" THEN after ELSE account[k]]

\* a history update that also counts the upload
AppendSearchCountsUpload(account, entry) ==
    LET before == IF "searches" \in DOMAIN account THEN account.searches ELSE <<>>
        after == LastN(Append(before, entry), HISTORY_CAP)
    IN  [k \in (DOMAIN account) \cup {"searches"} |->
            IF k = "searches" THEN after
            ELSE IF k = "uploads_count" THEN account[k] + 1 ELSE account[k]]

\* users[email]['searches'] after the append and the [-50:] cut; an account
\* without the key starts from []
AppendSearch(account, entry) ==
    LET before == IF "searches" \in DOMAIN account THEN account.searches ELSE <<>>
        after == LastN(Append(before, entry), HISTORY_CAP)
    IN  [k \in (DOMAIN account) \cup {"searches"} |->
            IF k = "searches" THEN after ELSE account[k]]

\* an image failure that is raised after the search was put in the history
ImageErrorAfterHistory(upload) ==
    /\ resp' = Redirect("index", Flash("danger", "Error processing image"))
    /\ logs' = log_activity(logs, clock, session.user_email, "ERROR",
                            <<"Image processing failed">>, REMOTE_ADDR)
    /\ clock' = clock + 1
    /\ users' = IF session.user_email \in DOMAIN users
                THEN [users EXCEPT ![session.user_email] =
                         AppendSearch(@, SearchEntry(clock, S_Unknown, <<>>, <<>>,
                                                     upload.filename))]
                ELSE users

\* the except branch of process() when saving, opening or classifying the
\* image raises: flash, log_activity(..., 'ERROR', ...), redirect to index
ImageError(upload) ==
    /\ resp' = Redirect("index", Flash("danger", "Error processing image"))
    /\ logs' = log_activity(logs, clock, session.user_email, "ERROR",
                            <<"Image processing failed">>, REMOTE_ADDR)
    /\ clock' = clock + 1
    /\ UNCHANGED users

\* an upload is [has_file, filename, image_ok, raw, keywords]: whether the
\* form has a 'file' part, its file name, whether saving, opening and
\* classifying the image succeeds, the classifier's top-1 class name, and
\* the keywords field
process(upload) ==
    /\ req' = [op |-> "process", form |-> upload]
    /\ UNCHANGED <<datasets, PRODUCT_DATABASE, CSV_FILES, model, session>>
    /\ IF ~LoggedIn(session)
       THEN /\ resp' = LoginRequiredResponse
            /\ UNCHANGED <<users, logs, clock>>
       ELSE IF ~upload.has_file \/ upload.filename = <<>>
       THEN /\ resp' = Redirect("index", Flash("danger", "No file selected"))
            /\ UNCHANGED <<users, logs, clock>>
       ELSE IF ~upload.image_ok
       THEN ImageError(upload)
       ELSE LET keywords == NormKeywords(upload.keywords)
                ai_category_prediction == Prediction(model, upload.raw)
                matches == RankedMatches(PRODUCT_DATABASE, ai_category_prediction, keywords)
                global_best_price == BestPrice(matches)
                email == session.user_email
            IN  /\ logs' = log_activity(logs, clock, email, "SEARCH",
                                        <<"Found", Len(matches), ai_category_prediction>>,
                                        REMOTE_ADDR)
                /\ users' = IF email \in DOMAIN users
                            THEN [users EXCEPT ![email] =
                                     AppendSearch(@, SearchEntry(clock, ai_category_prediction,
                                                                 keywords, matches,
                                                                 upload.filename))]
                            ELSE users
                /\ clock' = clock + 1
                /\ resp' = [Redirect("index", Flash("success", "Found matching products"))
                               EXCEPT !.args = [prediction |-> ai_category_prediction,
                                                matches |-> matches,
                                                global_best_price |-> global_best_price]]

-----------------------------------------------------------------------------
(* GET /reload_csv *)

reload_csv ==
    /\ req' = [op |-> "reload_csv", form |-> <<>>]
    /\ UNCHANGED <<datasets, model, users, session>>
    /\ IF ~LoggedIn(session)
       THEN /\ resp' = LoginRequiredResponse
            /\ UNCHANGED <<PRODUCT_DATABASE, CSV_FILES, logs, clock>>
       ELSE /\ PRODUCT_DATABASE' = load_product_database(datasets)
            /\ CSV_FILES' = CsvNames(datasets)
            /\ logs' = log_activity(logs, clock, session.user_email, "RELOAD_DB",
                                    <<"Loaded", Len(PRODUCT_DATABASE'), Len(CSV_FILES')>>,
                                    REMOTE_ADDR)
            /\ clock' = clock + 1
            /\ resp' = Redirect("index", Flash("success", "Database reloaded!"))

-----------------------------------------------------------------------------
(* GET /profile, GET /my-searches, GET /admin/dashboard *)

Page(name, shown) ==
    [kind |-> "page", to |-> name, flash |-> NoFlash, args |-> NoArgs,
     shown |-> shown, badges |-> <<>>]

\* users.get(session['user_email'], {}).get('searches', [])
SearchesOf(store, email) ==
    IF email \in DOMAIN store /\ "searches" \in DOMAIN store[email]
    THEN store[email].searches ELSE <<>>

\* profile(): the five latest searches, the latest first
profile ==
    /\ req' = [op |-> "profile", form |-> <<>>]
    /\ resp' = IF ~LoggedIn(session) THEN LoginRequiredResponse
               ELSE Page("profile", Reverse(LastN(SearchesOf(users, session.user_email), 5)))
    /\ UNCHANGED <<datasets, PRODUCT_DATABASE, CSV_FILES, model, users, logs, session, clock>>

\* my_searches(): the whole history, the latest first
my_searches ==
    /\ req' = [op |-> "my_searches", form |-> <<>>]
    /\ resp' = IF ~LoggedIn(session) THEN LoginRequiredResponse
               ELSE Page("my_searches", Reverse(SearchesOf(users, session.user_email)))
    /\ UNCHANGED <<datasets, PRODUCT_DATABASE, CSV_FILES, model, users, logs, session, clock>>

\* an admin test that trusts the role the session carries
IsAdminBySession(sess, store) == sess.role = "admin"

\* admin_required: user_email in users and users[user_email].get('role') == 'admin',
\* on the store as load_users() returns it for this request
IsAdmin(sess, store) ==
    sess.user_email \in DOMAIN store /\ store[sess.user_email].role = "admin"

AdminRequiredResponse == Redirect("index", Flash("danger", "Admin access required"))

\* admin_dashboard() behind admin_required
admin_dashboard ==
    /\ req' = [op |-> "admin_dashboard", form |-> <<>>]
    /\ resp' = IF ~LoggedIn(session) THEN LoginRequiredResponse
               ELSE IF ~IsAdmin(session, users) THEN AdminRequiredResponse
               ELSE Page("admin_dashboard", <<>>)
    /\ UNCHANGED <<datasets, PRODUCT_DATABASE, CSV_FILES, model, users, logs, session, clock>>

-----------------------------------------------------------------------------
(* GET / with the query string of the redirect process() returned *)

HasQuote(text) == \E i \in 1..Len(text) : text[i] \in {"'", "\""}

\* eval(str(matches).replace("'", '"')): the text of a list whose strings
\* hold no quote character and whose floats are all numbers evaluates back
\* to the list; 'nan' is no name eval() knows and a quote inside a string
\* breaks the literal, and then matches = []
EvalMatches(matches) ==
    IF \E i \in 1..Len(matches) :
           \/ matches[i].price.nan
           \/ HasQuote(matches[i].name) \/ HasQuote(matches[i].category)
           \/ HasQuote(matches[i].store) \/ HasQuote(matches[i].brand)
    THEN <<>>
    ELSE matches

\* global_best_price and match['price'] == float(global_best_price)
BestBadge(match, global_best_price) ==
    global_best_price.k # "empty" /\ FloatEQ(match.price, global_best_price.f)

index ==
    LET query == IF resp.kind = "redirect" /\ resp.to = "index" THEN resp.args ELSE NoArgs
        matches == EvalMatches(query.matches)
    IN  /\ req' = [op |-> "index", form |-> query]
        /\ resp' = IF matches # <<>> /\ query.global_best_price.k = "None"
                   THEN \* float('None') raises ValueError while the page is built
                        [kind |-> "error", to |-> "index", flash |-> NoFlash,
                         args |-> query, shown |-> <<>>, badges |-> <<>>]
                   ELSE [kind |-> "page", to |-> "index", flash |-> NoFlash,
                         args |-> query, shown |-> matches,
                         badges |-> [i \in 1..Len(matches) |->
                                        BestBadge(matches[i], query.global_best_price)]]
        /\ UNCHANGED <<datasets, PRODUCT_DATABASE, CSV_FILES, model, users, logs,
                       session, clock>>

-----------------------------------------------------------------------------
(* The operator replaces the content of the datasets folder *)

EditDatasets(folder) ==
    /\ folder # datasets
    /\ datasets' = folder
    /\ req' = [op |-> "edit_datasets", form |-> <<>>]
    /\ UNCHANGED <<PRODUCT_DATABASE, CSV_FILES, model, users, logs, session, clock, resp>>

-----------------------------------------------------------------------------
(* users.json and logs.json as files                                        *)
(*                                                                          *)
(* open(path, 'w') truncates the file at once; json.dump() writes into the  *)
(* buffer and the text reaches the file when the with block closes it.      *)
(* text is "whole" (the file is the JSON text of `users` or `logs`),        *)
(* "empty" (truncated, nothing written yet) or "torn" (part of a text, or   *)
(* bytes of two texts); read is whether open(path, 'r') succeeds; write is  *)
(* "ok", "denied" (open(path, 'w') raises) or "short" (the file is          *)
(* truncated and the write raises, as on a full disk).                      *)

HealthyFile == [text |-> "whole", read |-> TRUE, write |-> "ok"]

HealthyIO == [users |-> HealthyFile, logs |-> HealthyFile]

\* json.load() returns: the file opens and holds one whole text
Readable(file) == file.read /\ file.text = "whole"

EmptyStore == <<>>

\* load_users(): the store, or {} when open() or json.load() raises
load_users == IF Readable(io.users) THEN users ELSE EmptyStore

\* the logs list log_activity() starts from: the file, or [] when open() or
\* json.load() raises
load_logs == IF Readable(io.logs) THEN logs ELSE <<>>

\* a save that writes its structure over the accounts the file holds
save_users_merged(store, present) == store @@ present

\* save_users(users): json.dump(users, f) writes the structure it was given,
\* whatever the file held
save_users(store, present) == store

\* the texts a file can hold once a writer closes it: its own text when the
\* file was still empty; when another writer's text reached the file after
\* this writer truncated it, the bytes of both lie over each other, which
\* reads as this writer's text or as no JSON text, by their lengths
Written(file) == IF file.text = "empty" THEN {"whole"} ELSE {"whole", "torn"}

-----------------------------------------------------------------------------
(* The handlers step by step                                                *)
(*                                                                          *)
(* app.run() serves every request in a thread of its own. A step is one     *)
(* access to what the threads share (users.json, logs.json, the globals     *)
(* PRODUCT_DATABASE and CSV_FILES, the datasets folder) with the local      *)
(* computation that follows it. threads[c] is the request client c has      *)
(* sent: pc the step to take next ("idle": answered, `out` is the           *)
(* response), session the client's cookie, and the handler's locals.        *)
(* users_failed, log_unread and log_unwritten record that load_users() or   *)
(* log_activity() met an exception: the except clauses taken, and the       *)
(* exception raised by the write.                                           *)

NoResponse ==
    [kind |-> "none", to |-> "", flash |-> NoFlash, args |-> NoArgs,
     shown |-> <<>>, badges |-> <<>>]

\* the answer of Flask to an exception that leaves the handler: 500
ServerError ==
    [kind |-> "error", to |-> "", flash |-> NoFlash, args |-> NoArgs,
     shown |-> <<>>, badges |-> <<>>]

NoEntry == [user |-> <<>>, action |-> "", details |-> <<>>]

Idle(sess) ==
    [pc |-> "idle", op |-> "", form |-> <<>>, session |-> sess, out |-> NoResponse,
     users |-> EmptyStore, logs |-> <<>>, entry |-> NoEntry, phase |-> "",
     catalog |-> <<>>, pos |-> 0, seen |-> <<>>, matches |-> <<>>,
     csv_files |-> <<>>, products_list |-> <<>>, prediction |-> <<>>,
     users_failed |-> FALSE, log_unread |-> FALSE, log_unwritten |-> FALSE]

Set(c, th) == threads' = [threads EXCEPT ![c] = th]

\* return response
Finish(th, response) == [th EXCEPT !.pc = "idle", !.out = response]

\* log_activity(user, action, details) is called
CallLog(th, user, action, details) ==
    [th EXCEPT !.pc = "log_read",
               !.entry = [user |-> user, action |-> action, details |-> details]]

\* session.get('user_email', 'anonymous')
SessionUser(sess) == IF LoggedIn(sess) THEN sess.user_email ELSE <<"anonymous">>

\* an exception is raised in the handler: in the try block of process() the
\* except branch flashes it and calls log_activity(..., 'ERROR', ...); from
\* anywhere else it leaves the handler
Raise(th) ==
    IF th.op = "process" /\ th.phase = "try"
    THEN CallLog([th EXCEPT !.phase = "except"], SessionUser(th.session), "ERROR",
                 <<"Image processing failed">>)
    ELSE Finish(th, ServerError)

\* the response process() ends with when nothing was raised
Found(th) ==
    [Redirect("index", Flash("success", "Found matching products"))
        EXCEPT !.args = [prediction |-> th.prediction, matches |-> th.matches,
                         global_best_price |-> BestPrice(th.matches)]]

\* what follows save_users() in the handler
AfterSave(th) ==
    CASE th.op = "register" ->
           CallLog(th, NormEmail(th.form.email), "REGISTER",
                   <<"New user", Strip(th.form.username)>>)
      [] th.op = "login" ->
           CallLog(th, NormEmail(th.form.email), "LOGIN",
                   <<"Successful login from", REMOTE_ADDR>>)
      [] OTHER -> Finish(th, Found(th))

\* what follows log_activity() in the handler; the session that login()
\* filled before the call reaches the client as a cookie of the response,
\* so it is th.session only once the handler has returned
AfterLog(th) ==
    CASE th.op = "register" ->
           Finish(th, Redirect("login",
                               Flash("success", "Registration successful! Please login")))
      [] th.op = "login" ->
           LET email == NormEmail(th.form.email)
           IN  Finish([th EXCEPT !.session = LoginSession(email, th.users[email])],
                      Redirect(IF th.users[email].role = "admin"
                               THEN "admin_dashboard" ELSE "index",
                               Flash("success", "Welcome back")))
      [] th.op = "logout" ->
           Finish([th EXCEPT !.session = EmptySession],
                  Redirect("index", Flash("info", "You have been logged out")))
      [] th.op = "process" /\ th.phase = "try" -> [th EXCEPT !.pc = "proc_load"]
      [] th.op = "process" /\ th.phase = "except" ->
           Finish(th, Redirect("index", Flash("danger", "Error processing image")))
      [] OTHER -> Finish(th, Redirect("index", Flash("success", "Database reloaded!")))

\* save_users(): with open(USERS_FILE, 'w') as f
SaveOpen(c) ==
    LET th == threads[c]
    IN  /\ th.pc = "save_open"
        /\ IF io.users.write = "denied"
           THEN Set(c, Raise(th)) /\ UNCHANGED <<users, io>>
           ELSE /\ users' = EmptyStore
                /\ io' = [io EXCEPT !.users.text = "empty"]
                /\ Set(c, [th EXCEPT !.pc = "save_close"])
        /\ UNCHANGED <<datasets, PRODUCT_DATABASE, CSV_FILES, model, logs, session, clock,
                       req, resp>>

\* save_users(): json.dump(users, f, indent=4) and the end of the with block
SaveClose(c) ==
    LET th == threads[c]
    IN  /\ th.pc = "save_close"
        /\ IF io.users.write = "short"
           THEN /\ users' = EmptyStore
                /\ io' = [io EXCEPT !.users.text = "torn"]
                /\ Set(c, Raise(th))
           ELSE \E text \in Written(io.users) :
                   /\ users' = IF text = "whole" THEN save_users(th.users, users)
                                ELSE EmptyStore
                   /\ io' = [io EXCEPT !.users.text = text]
                   /\ Set(c, AfterSave(th))
        /\ UNCHANGED <<datasets, PRODUCT_DATABASE, CSV_FILES, model, logs, session, clock,
                       req, resp>>

\* log_activity(): the entry, the read of logs.json, the append and the cut
LogRead(c) ==
    LET th == threads[c]
    IN  /\ th.pc = "log_read"
        /\ Set(c, [th EXCEPT !.pc = "log_open",
                             !.logs = log_activity(load_logs, clock, th.entry.user,
                                                   th.entry.action, th.entry.details,
                                                   REMOTE_ADDR),
                             !.log_unread = @ \/ ~Readable(io.logs)])
        /\ UNCHANGED <<datasets, PRODUCT_DATABASE, CSV_FILES, model, users, logs, session,
                       clock, req, resp, io>>

\* log_activity(): with open(LOGS_FILE, 'w') as f
LogOpen(c) ==
    LET th == threads[c]
    IN  /\ th.pc = "log_open"
        /\ IF io.logs.write = "denied"
           THEN Set(c, Raise([th EXCEPT !.log_unwritten = TRUE])) /\ UNCHANGED <<logs, io>>
           ELSE /\ logs' = <<>>
                /\ io' = [io EXCEPT !.logs.text = "empty"]
                /\ Set(c, [th EXCEPT !.pc = "log_close"])
        /\ UNCHANGED <<datasets, PRODUCT_DATABASE, CSV_FILES, model, users, session, clock,
                       req, resp>>

\* log_activity(): json.dump(logs, f, indent=2) and the end of the with block
LogClose(c) ==
    LET th == threads[c]
    IN  /\ th.pc = "log_close"
        /\ IF io.logs.write = "short"
           THEN /\ logs' = <<>>
                /\ io' = [io EXCEPT !.logs.text = "torn"]
                /\ Set(c, Raise([th EXCEPT !.log_unwritten = TRUE]))
           ELSE \E text \in Written(io.logs) :
                   /\ logs' = IF text = "whole" THEN th.logs ELSE <<>>
                   /\ io' = [io EXCEPT !.logs.text = text]
                   /\ Set(c, AfterLog(th))
        /\ UNCHANGED <<datasets, PRODUCT_DATABASE, CSV_FILES, model, users, session, clock,
                       req, resp>>

\* register() up to save_users(): the validation, load_users(), the
\* duplicate test and the new account
RegisterLoad(c) ==
    LET th == threads[c]
        email == NormEmail(th.form.email)
        username == Strip(th.form.username)
        full_name == Strip(th.form.full_name)
        password == th.form.password
        loaded == load_users
    IN  /\ th.pc = "register"
        /\ Set(c, IF AnyBlank(email, username, full_name, password)
                  THEN Finish(th, Redirect("register",
                                           Flash("danger", "All fields are required")))
                  ELSE IF password # th.form.confirm_password
                  THEN Finish(th, Redirect("register",
                                           Flash("danger", "Passwords do not match")))
                  ELSE IF PasswordTooShort(password)
                  THEN Finish(th, Redirect("register",
                                  Flash("danger", "Password must be at least 6 characters")))
                  ELSE IF email \in DOMAIN loaded
                  THEN Finish([th EXCEPT !.users_failed = ~Readable(io.users)],
                              Redirect("register", Flash("danger", "Email already registered")))
                  ELSE [th EXCEPT !.pc = "save_open",
                                  !.users_failed = ~Readable(io.users),
                                  !.users = (email :> NewAccount(username, full_name, password,
                                                                 <<"f","f">>, clock))
                                               @@ loaded])
        /\ UNCHANGED <<datasets, PRODUCT_DATABASE, CSV_FILES, model, users, logs, session,
                       clock, req, resp, io>>

\* login() up to save_users(): the validation, load_users(), the two
\* credential tests and the new last_login
LoginLoad(c) ==
    LET th == threads[c]
        email == NormEmail(th.form.email)
        password == th.form.password
        loaded == load_users
    IN  /\ th.pc = "login"
        /\ Set(c, IF email = <<>> \/ password = <<>>
                  THEN Finish(th, Redirect("login",
                                           Flash("danger", "Email and password are required")))
                  ELSE IF email \notin DOMAIN loaded
                  THEN Finish([th EXCEPT !.users_failed = ~Readable(io.users)],
                              UnknownEmailResponse)
                  ELSE IF ~verify_password(loaded[email].password, password)
                  THEN Finish(th, WrongPasswordResponse)
                  ELSE [th EXCEPT !.pc = "save_open",
                                  !.users = [loaded EXCEPT ![email].last_login = Time(clock)]])
        /\ UNCHANGED <<datasets, PRODUCT_DATABASE, CSV_FILES, model, users, logs, session,
                       clock, req, resp, io>>

\* logout() up to log_activity()
LogoutStart(c) ==
    LET th == threads[c]
    IN  /\ th.pc = "logout"
        /\ Set(c, IF LoggedIn(th.session)
                  THEN CallLog(th, th.session.user_email, "LOGOUT", <<"User logged out">>)
                  ELSE Finish(th, Redirect("index", Flash("info", "You have been logged out"))))
        /\ UNCHANGED <<datasets, PRODUCT_DATABASE, CSV_FILES, model, users, logs, session,
                       clock, req, resp, io>>

\* process() up to the loop over the catalog: login_required, the file
\* tests, the image and the classifier; `for product in PRODUCT_DATABASE`
\* takes the list the global names at that moment
ProcessStart(c) ==
    LET th == threads[c]
    IN  /\ th.pc = "process"
        /\ Set(c, IF ~LoggedIn(th.session)
                  THEN Finish(th, LoginRequiredResponse)
                  ELSE IF ~th.form.has_file \/ th.form.filename = <<>>
                  THEN Finish(th, Redirect("index", Flash("danger", "No file selected")))
                  ELSE IF ~th.form.image_ok
                  THEN Raise([th EXCEPT !.phase = "try"])
                  ELSE [th EXCEPT !.pc = "scan", !.phase = "try",
                                  !.prediction = Prediction(model, th.form.raw),
                                  !.catalog = PRODUCT_DATABASE])
        /\ UNCHANGED <<datasets, PRODUCT_DATABASE, CSV_FILES, model, users, logs, session,
                       clock, req, resp, io>>

\* a loop that reads the global again for every record:
\* for i in range(len(PRODUCT_DATABASE)): product = PRODUCT_DATABASE[i]
ScanListOfGlobal(taken, global) == global

\* the list the loop of process() iterates: the one it took when it started
ScanList(taken, global) == taken

\* process(): one iteration of the loop over the catalog; after the last
\* one the sort, the best price and the call of log_activity()
ProcessScan(c) ==
    LET th == threads[c]
        list == ScanList(th.catalog, PRODUCT_DATABASE)
        keywords == NormKeywords(th.form.keywords)
    IN  /\ th.pc = "scan"
        /\ Set(c, IF th.pos < Len(list)
                  THEN LET product == list[th.pos + 1]
                       IN  [th EXCEPT !.pos = @ + 1,
                                      !.seen = Append(@, product),
                                      !.matches = IF Selected(product, th.prediction, keywords)
                                                  THEN Append(@, product) ELSE @]
                  ELSE LET matches == SortByPrice(th.matches)
                       IN  CallLog([th EXCEPT !.matches = matches], th.session.user_email,
                                   "SEARCH", <<"Found", Len(matches), th.prediction>>))
        /\ UNCHANGED <<datasets, PRODUCT_DATABASE, CSV_FILES, model, users, logs, session,
                       clock, req, resp, io>>

\* process(): load_users() and the history entry, up to save_users()
ProcessLoad(c) ==
    LET th == threads[c]
        email == th.session.user_email
        loaded == load_users
    IN  /\ th.pc = "proc_load"
        /\ Set(c, IF email \in DOMAIN loaded
                  THEN [th EXCEPT !.pc = "save_open",
                                  !.users = [loaded EXCEPT ![email] =
                                      AppendSearch(@, SearchEntry(clock, th.prediction,
                                                                  NormKeywords(th.form.keywords),
                                                                  th.matches, th.form.filename))]]
                  ELSE Finish([th EXCEPT !.users_failed = ~Readable(io.users)], Found(th)))
        /\ UNCHANGED <<datasets, PRODUCT_DATABASE, CSV_FILES, model, users, logs, session,
                       clock, req, resp, io>>

\* reload_csv() and load_product_database() up to the loop over the files:
\* login_required, the listing of the folder, products_list = []
ReloadStart(c) ==
    LET th == threads[c]
    IN  /\ th.pc = "reload_csv"
        /\ Set(c, IF ~LoggedIn(th.session)
                  THEN Finish(th, LoginRequiredResponse)
                  ELSE [th EXCEPT !.pc = "load_file", !.csv_files = ListCsv(datasets),
                                  !.products_list = <<>>, !.pos = 0])
        /\ UNCHANGED <<datasets, PRODUCT_DATABASE, CSV_FILES, model, users, logs, session,
                       clock, req, resp, io>>

\* load_product_database(): one iteration of the loop over the files, on the
\* local products_list; after the last one reload_csv() binds the global
\* PRODUCT_DATABASE to the list
ReloadFile(c) ==
    LET th == threads[c]
    IN  /\ th.pc = "load_file"
        /\ IF th.pos < Len(th.csv_files)
           THEN /\ Set(c, [th EXCEPT !.pos = @ + 1,
                                     !.products_list = LoadFile(th.csv_files[th.pos + 1], @)])
                /\ UNCHANGED PRODUCT_DATABASE
           ELSE /\ PRODUCT_DATABASE' = th.products_list
                /\ Set(c, [th EXCEPT !.pc = "list_names"])
        /\ UNCHANGED <<datasets, CSV_FILES, model, users, logs, session, clock, req, resp, io>>

\* reload_csv(): the global CSV_FILES, and the call of log_activity()
ReloadNames(c) ==
    LET th == threads[c]
    IN  /\ th.pc = "list_names"
        /\ CSV_FILES' = CsvNames(datasets)
        /\ Set(c, CallLog(th, th.session.user_email, "RELOAD_DB",
                          <<"Loaded", Len(PRODUCT_DATABASE), Len(CsvNames(datasets))>>))
        /\ UNCHANGED <<datasets, PRODUCT_DATABASE, model, users, logs, session, clock, req,
                       resp, io>>

\* client c sends a request: the server starts the handler in a new thread
Begin(c, op, form) ==
    /\ threads[c].pc = "idle"
    /\ clock' = clock + 1
    /\ Set(c, [Idle(threads[c].session) EXCEPT !.pc = op, !.op = op, !.form = form])
    /\ UNCHANGED <<datasets, PRODUCT_DATABASE, CSV_FILES, model, users, logs, session, req,
                   resp, io>>

\* between two requests the file system changes what open() does
SetIO(can) ==
    /\ \A c \in DOMAIN threads : threads[c].pc = "idle"
    /\ can # [f \in DOMAIN io |-> [read |-> io[f].read, write |-> io[f].write]]
    /\ io' = [f \in DOMAIN io |-> [io[f] EXCEPT !.read = can[f].read, !.write = can[f].write]]
    /\ UNCHANGED <<datasets, PRODUCT_DATABASE, CSV_FILES, model, users, logs, session, clock,
                   req, resp, threads>>

-----------------------------------------------------------------------------
(* Bounds and input sets *)

MaxRows == 2      \* rows per source file, for the loader

MaxCatalog == 3   \* rows of the source file, for the match step

MaxClock == 3     \* value the clock may reach in one behaviour

MaxHeadroom == 2  \* entries a history or the log may lack to its cap at the start

MaxRequests == 2  \* requests sent to the threaded server in one behaviour

SeqsUpTo(S, n) == UNION { [1..k -> S] : k \in 0..n }

T_amz == <<"a","m","z">>

T_ebay == <<"e","b","a","y">>

T_Air == <<"A","i","r">>

T_Max == <<"M","a","x">>

T_Hat == <<"H","a","t">>

T_Zed == <<" ","Z","e","d">>

T_nike == <<"n","i","k","e">>

T_puma == <<"p","u","m","a">>

T_Shoe == <<"S","h","o","e">>

T_run_shoes == <<"r","u","n"," ","s","h","o","e","s">>

T_cap == <<"c","a","p">>

Row(name, brand, category, price) ==
    [name |-> name, brand |-> brand, category |-> category, price |-> price]

File(base, csv, status, cols, rows) ==
    [base |-> base, csv |-> csv, status |-> status, cols |-> cols, rows |-> rows]

\* rows for the loader: complete, price cell empty, price cell not a number,
\* name cell empty
R_good == Row(Text(T_Air), Text(T_nike), Text(T_Shoe), PNum(2))

R_noprice == Row(Text(T_Max), Text(T_puma), Text(T_cap), PNa)

R_badprice == Row(Text(T_Hat), Text(T_nike), Text(T_cap), PText)

R_noname == Row(NaCell, Text(T_puma), Text(T_Shoe), PNum(1))

LoadRows == {R_good, R_noprice, R_badprice}

\* rows for the match step: two prices that tie, a cheaper one, an empty price
M_air == Row(Text(T_Air), Text(T_nike), Text(T_Shoe), PNum(2))

M_max == Row(Text(T_Max), Text(T_puma), Text(T_run_shoes), PNum(1))

M_hat == Row(Text(T_Hat), Text(T_nike), Text(T_cap), PNum(2))

M_zed == Row(Text(T_Zed), NaCell, Text(T_Shoe), PNa)

MatchRows == {M_air, M_max, M_hat, M_zed}

\* the files one name can be, for the loader: every row sequence, a file
\* read_csv() fails on, a file without a price column, a file that is no
\* .csv, a file whose first row has no name, a file that fails at its second
\* row of three
LoadFiles(base) ==
    { File(base, TRUE, "ok", AllCols, rows) : rows \in SeqsUpTo(LoadRows, MaxRows) }
    \cup { File(base, TRUE, "error", AllCols, <<>>),
           File(base, TRUE, "ok", AllCols \ {"price"}, <<R_good>>),
           File(base, FALSE, "ok", AllCols, <<R_good>>),
           File(base, TRUE, "ok", AllCols, <<R_noname, R_good>>),
           File(base, TRUE, "ok", AllCols, <<R_good, R_badprice, R_good>>) }

\* folders of at most two files
Folders(first, second) ==
    {<<>>} \cup { <<f>> : f \in first } \cup { <<f, g>> : f \in first, g \in second }

LoadFolders == Folders(LoadFiles(T_amz), LoadFiles(T_ebay))

\* for the match step: one file with every row sequence, or without a
\* category column
MatchFolders ==
    { <<File(T_amz, TRUE, "ok", AllCols, rows)>> : rows \in SeqsUpTo(MatchRows, MaxCatalog) }
    \cup { <<File(T_amz, TRUE, "ok", AllCols \ {"category"}, <<M_hat, M_air>>)>> }

F_shop == <<File(T_amz, TRUE, "ok", AllCols, <<M_air, M_max>>),
            File(T_ebay, TRUE, "ok", AllCols, <<M_hat>>)>>

F_broken == <<File(T_amz, TRUE, "ok", AllCols, <<R_good, R_badprice, R_good>>),
              File(T_ebay, TRUE, "error", AllCols, <<>>)>>

F_gap == <<File(T_amz, TRUE, "ok", AllCols, <<M_air, M_zed, M_max>>)>>

SysFolders == {F_shop, F_broken, F_gap}

\* classifier outputs and keyword fields
RAW_shoe == <<"s","h","o","e">>

RAW_run_shoe == <<"r","u","n","_","s","h","o","e">>

RAW_cat == <<"c","a","t">>

RawLabels == {RAW_shoe, RAW_run_shoe, RAW_cat}

K_none == <<>>

K_blank == <<" "," ">>

K_nike_cap == <<" ","N","i","k","e"," "," ","c","a","p">>

K_air == <<"a","i","r">>

K_zz == <<"z","z">>

FN_img == <<"i",".","p","n","g">>

Upload(has_file, filename, image_ok, raw, keywords) ==
    [has_file |-> has_file, filename |-> filename, image_ok |-> image_ok,
     raw |-> raw, keywords |-> keywords]

\* searches with a good image: every label without keywords, and keywords of
\* no, one and two matching words
GoodUploads ==
    { Upload(TRUE, FN_img, TRUE, raw, K_none) : raw \in RawLabels }
    \cup { Upload(TRUE, FN_img, TRUE, RAW_shoe, K_blank),
           Upload(TRUE, FN_img, TRUE, RAW_shoe, K_nike_cap),
           Upload(TRUE, FN_img, TRUE, RAW_cat, K_air),
           Upload(TRUE, FN_img, TRUE, RAW_run_shoe, K_zz) }

\* the uploads process() turns away or fails on
BadUploads == { Upload(FALSE, <<>>, TRUE, RAW_shoe, K_none),
                Upload(TRUE, <<>>, TRUE, RAW_shoe, K_none),
                Upload(TRUE, FN_img, FALSE, RAW_shoe, K_air) }

SysUploads == { Upload(TRUE, FN_img, TRUE, RAW_shoe, K_none),
                Upload(TRUE, FN_img, TRUE, RAW_cat, K_nike_cap) } \cup BadUploads

\* registration and login fields
E_u == <<"u","@","x">>

E_U == <<" ","U","@","X"," ">>

P_5 == <<"a","b","c","d","e">>

P_6 == <<"a","b","c","d","e","f">>

P_spaces == <<" "," "," "," "," "," ">>

N_bob == <<"b","o","b">>

N_Bob == <<"B","o","b"," ">>

RegisterForm(email, username, full_name, password, confirm_password) ==
    [email |-> email, username |-> username, full_name |-> full_name,
     password |-> password, confirm_password |-> confirm_password]

\* one well-formed registration per email spelling, and each way of failing
RegisterForms ==
    { RegisterForm(e, N_bob, N_Bob, P_6, P_6) : e \in {E_u, E_U, ADMIN_EMAIL} }
    \cup { RegisterForm(E_u, N_bob, N_Bob, P_spaces, P_spaces),
           RegisterForm(<<" ">>, N_bob, N_Bob, P_6, P_6),
           RegisterForm(E_u, <<" ">>, N_Bob, P_6, P_6),
           RegisterForm(E_u, N_bob, <<>>, P_6, P_6),
           RegisterForm(E_u, N_bob, N_Bob, <<>>, <<>>),
           RegisterForm(E_u, N_bob, N_Bob, P_6, P_5),
           RegisterForm(E_u, N_bob, N_Bob, P_5, P_5) }

LoginForm(email, password) == [email |-> email, password |-> password]

AdminLogin == LoginForm(ADMIN_EMAIL, ADMIN_PASSWORD)

LoginForms ==
    { AdminLogin, LoginForm(ADMIN_EMAIL, P_6), LoginForm(E_U, P_6),
      LoginForm(E_u, P_spaces), LoginForm(E_u, <<>>), LoginForm(<<>>, P_6) }

-----------------------------------------------------------------------------
(* Specifications *)

\* the catalog as loaded from the folder when the module is imported; time 1
\* is the instant the first request is served
Loaded(folder) ==
    /\ io = HealthyIO
    /\ datasets = folder
    /\ PRODUCT_DATABASE = load_product_database(folder)
    /\ CSV_FILES = CsvNames(folder)
    /\ clock = 1
    /\ req = [op |-> "start", form |-> <<>>]
    /\ resp = [kind |-> "none", to |-> "", flash |-> NoFlash, args |-> NoArgs,
               shown |-> <<>>, badges |-> <<>>]

\* the state once the module is imported and init_users() has run on an empty
\* users.json: the catalog is loaded from the folder, the store holds the
\* admin account, the log is empty
Start(folder) ==
    /\ Loaded(folder)
    /\ threads = <<>>
    /\ users = (ADMIN_EMAIL :> AdminAccount(<<"0","0">>, 0))
    /\ logs = <<>>
    /\ session = EmptySession

InTime == clock < MaxClock

\* a request served from start to end with no other request in between, on
\* files that open, read and write
Serial == UNCHANGED <<io, threads>>

\* the whole application on a small catalog
Init == /\ \E folder \in SysFolders : Start(folder)
        /\ model \in BOOLEAN

Register == InTime /\ Serial /\ \E form \in RegisterForms : register(form)

Login == InTime /\ Serial /\ \E form \in LoginForms : login(form)

Logout == InTime /\ Serial /\ logout

Process == InTime /\ Serial /\ \E upload \in SysUploads : process(upload)

Reload == InTime /\ Serial /\ reload_csv

Index == InTime /\ Serial /\ index

Edit == InTime /\ Serial /\ \E folder \in SysFolders : EditDatasets(folder)

Next == Register \/ Login \/ Logout \/ Process \/ Reload \/ Index \/ Edit

Spec == Init /\ [][Next]_vars

\* the loader over every folder of LoadFolders
InitLoad == /\ \E folder \in LoadFolders : Start(folder)
            /\ model = TRUE

LoadLogin == InTime /\ Serial /\ login(AdminLogin)

LoadReload == InTime /\ Serial /\ reload_csv

LoadEdit == InTime /\ Serial /\ EditDatasets(F_broken)

NextLoad == LoadLogin \/ LoadReload \/ LoadEdit

SpecLoad == InitLoad /\ [][NextLoad]_vars

\* the match step over every catalog loaded from MatchFolders
InitMatch == /\ \E folder \in MatchFolders : Start(folder)
             /\ model = TRUE

MatchLogin == InTime /\ Serial /\ login(AdminLogin)

MatchProcess == InTime /\ Serial /\ \E upload \in GoodUploads : process(upload)

NextMatch == MatchLogin \/ MatchProcess

SpecMatch == InitMatch /\ [][NextMatch]_vars

\* the match step when the classifier failed to load (model = None)
InitDegraded == /\ \E folder \in MatchFolders : Start(folder)
                /\ model = FALSE

DegradedLogin == InTime /\ Serial /\ login(AdminLogin)

DegradedProcess == InTime /\ Serial /\ \E upload \in GoodUploads : process(upload)

NextDegraded == DegradedLogin \/ DegradedProcess

SpecDegraded == InitDegraded /\ [][NextDegraded]_vars

\* the session login() sets for the admin account
AdminSession ==
    [user_email |-> ADMIN_EMAIL, user_name |-> S_admin,
     full_name |-> S_SystemAdministrator, role |-> "admin"]

\* an account with its 'searches' key set
WithSearches(account, searches) ==
    [k \in (DOMAIN account) \cup {"searches"} |->
        IF k = "searches" THEN searches ELSE account[k]]

\* the history after n label searches on catalog, one a second, the last one
\* second before time 1
PastSearches(catalog, n) ==
    [i \in 1..n |->
        SearchEntry(i - HISTORY_CAP, T_Shoe, <<>>, RankedMatches(catalog, T_Shoe, <<>>), FN_img)]

\* the log of the login and of these n searches
PastSearchLogs(catalog, n) ==
    [i \in 1..(n + 1) |->
        IF i = 1
        THEN LogEntry(0 - HISTORY_CAP, ADMIN_EMAIL, "LOGIN",
                      <<"Successful login from", REMOTE_ADDR>>, REMOTE_ADDR)
        ELSE LogEntry(i - 1 - HISTORY_CAP, ADMIN_EMAIL, "SEARCH",
                      <<"Found", Len(RankedMatches(catalog, T_Shoe, <<>>)), T_Shoe>>,
                      REMOTE_ADDR)]

\* at most MaxRequests requests are sent in one behaviour of the threaded server
MayBegin == clock <= MaxRequests

\* what open() can do on the two files: all is well, users.json cannot be
\* read, its write is cut short, logs.json cannot be read, cannot be opened
\* for writing, its write is cut short
Can(users_read, users_write, logs_read, logs_write) ==
    [users |-> [read |-> users_read, write |-> users_write],
     logs |-> [read |-> logs_read, write |-> logs_write]]

IOFaults ==
    { Can(TRUE, "ok", TRUE, "ok"), Can(FALSE, "ok", TRUE, "ok"), Can(TRUE, "short", TRUE, "ok"),
      Can(TRUE, "ok", FALSE, "ok"), Can(TRUE, "ok", TRUE, "denied"),
      Can(TRUE, "ok", TRUE, "short") }

E_v == <<"v","@","x">>

\* the admin has logged in from every client of clients
AdminLoggedIn(clients) ==
    /\ model = TRUE
    /\ session = EmptySession
    /\ users = (ADMIN_EMAIL :> [AdminAccount(<<"0","0">>, 0 - LOG_CAP)
                                  EXCEPT !.last_login = Time(0)])
    /\ logs = [i \in 1..Cardinality(clients) |->
                  LogEntry(0, ADMIN_EMAIL, "LOGIN",
                           <<"Successful login from", REMOTE_ADDR>>, REMOTE_ADDR)]
    /\ threads = [c \in clients |-> Idle(AdminSession)]

\* one client, on files that fail
InitFault == Loaded(F_shop) /\ AdminLoggedIn({1})

FaultRequests ==
    { <<"register", RegisterForm(E_u, N_bob, N_Bob, P_6, P_6)>>,
      <<"login", AdminLogin>>,
      <<"logout", <<>>>>,
      <<"process", Upload(TRUE, FN_img, TRUE, RAW_shoe, K_none)>>,
      <<"process", Upload(TRUE, FN_img, FALSE, RAW_shoe, K_air)>>,
      <<"reload_csv", <<>>>> }

FaultBegin == MayBegin /\ \E r \in FaultRequests : Begin(1, r[1], r[2])

FaultSetIO == \E can \in IOFaults : SetIO(can)

DoRegisterLoad == \E c \in DOMAIN threads : RegisterLoad(c)

DoLoginLoad == \E c \in DOMAIN threads : LoginLoad(c)

DoLogoutStart == \E c \in DOMAIN threads : LogoutStart(c)

DoProcessStart == \E c \in DOMAIN threads : ProcessStart(c)

DoProcessScan == \E c \in DOMAIN threads : ProcessScan(c)

DoProcessLoad == \E c \in DOMAIN threads : ProcessLoad(c)

DoReloadStart == \E c \in DOMAIN threads : ReloadStart(c)

DoReloadFile == \E c \in DOMAIN threads : ReloadFile(c)

DoReloadNames == \E c \in DOMAIN threads : ReloadNames(c)

DoSaveOpen == \E c \in DOMAIN threads : SaveOpen(c)

DoSaveClose == \E c \in DOMAIN threads : SaveClose(c)

DoLogRead == \E c \in DOMAIN threads : LogRead(c)

DoLogOpen == \E c \in DOMAIN threads : LogOpen(c)

DoLogClose == \E c \in DOMAIN threads : LogClose(c)

NextFault ==
    \/ FaultBegin \/ FaultSetIO
    \/ DoRegisterLoad \/ DoLoginLoad \/ DoLogoutStart
    \/ DoProcessStart \/ DoProcessScan \/ DoProcessLoad
    \/ DoReloadStart \/ DoReloadFile \/ DoReloadNames
    \/ DoSaveOpen \/ DoSaveClose \/ DoLogRead \/ DoLogOpen \/ DoLogClose

SpecFault == InitFault /\ [][NextFault]_vars

\* the folder the running server has loaded, and the folder that took its
\* place on disk since
F_old == <<File(T_amz, TRUE, "ok", AllCols, <<M_air, M_max>>)>>

F_new == <<File(T_amz, TRUE, "ok", AllCols, <<M_hat>>),
           File(T_ebay, TRUE, "ok", AllCols, <<M_air>>)>>

\* two clients of the threaded server (app.run() of the development server
\* handles every request in a thread of its own), on files in order
InitConc ==
    /\ io = HealthyIO
    /\ datasets = F_new
    /\ PRODUCT_DATABASE = load_product_database(F_old)
    /\ CSV_FILES = CsvNames(F_old)
    /\ clock = 1
    /\ req = [op |-> "start", form |-> <<>>]
    /\ resp = NoResponse
    /\ AdminLoggedIn({1, 2})

ConcRequests ==
    { <<"register", RegisterForm(E_u, N_bob, N_Bob, P_6, P_6)>>,
      <<"register", RegisterForm(E_v, N_bob, N_Bob, P_6, P_6)>>,
      <<"login", AdminLogin>>,
      <<"process", Upload(TRUE, FN_img, TRUE, RAW_shoe, K_none)>>,
      <<"reload_csv", <<>>>> }

ConcBegin ==
    MayBegin /\ \E c \in DOMAIN threads : \E r \in ConcRequests : Begin(c, r[1], r[2])

NextConc ==
    \/ ConcBegin
    \/ DoRegisterLoad \/ DoLoginLoad
    \/ DoProcessStart \/ DoProcessScan \/ DoProcessLoad
    \/ DoReloadStart \/ DoReloadFile \/ DoReloadNames
    \/ DoSaveOpen \/ DoSaveClose \/ DoLogRead \/ DoLogOpen \/ DoLogClose

SpecConc == InitConc /\ [][NextConc]_vars

\* the account of u@x as a register() at time `now` wrote it
BobAccount(now) == NewAccount(N_bob, Strip(N_Bob), P_6, <<"f","f">>, now)

RegisterLog(now, email, username) ==
    LogEntry(now, email, "REGISTER", <<"New user", username>>, REMOTE_ADDR)

LoginLog(now, email) ==
    LogEntry(now, email, "LOGIN", <<"Successful login from", REMOTE_ADDR>>, REMOTE_ADDR)

\* the states the access rules are checked from, each with its store, its
\* log and the session of the one client: after u@x registered; after the
\* admin then logged in; after u@x then logged in; and after the admin
\* logged in and the registration of u@x then found users.json unreadable
\* and wrote a store without the admin account
AccessStarts ==
    LET admin == AdminAccount(<<"0","0">>, 0 - 3)
        both == (ADMIN_EMAIL :> admin) @@ (E_u :> BobAccount(0 - 2))
    IN  { [users |-> both, logs |-> <<RegisterLog(0 - 2, E_u, N_bob)>>,
           session |-> EmptySession],
          [users |-> [both EXCEPT ![ADMIN_EMAIL].last_login = Time(0 - 1)],
           logs |-> <<RegisterLog(0 - 2, E_u, N_bob), LoginLog(0 - 1, ADMIN_EMAIL)>>,
           session |-> LoginSession(ADMIN_EMAIL, admin)],
          [users |-> [both EXCEPT ![E_u].last_login = Time(0 - 1)],
           logs |-> <<RegisterLog(0 - 2, E_u, N_bob), LoginLog(0 - 1, E_u)>>,
           session |-> LoginSession(E_u, BobAccount(0 - 2))],
          [users |-> (E_u :> BobAccount(0 - 1)),
           logs |-> <<LoginLog(0 - 2, ADMIN_EMAIL), RegisterLog(0 - 1, E_u, N_bob)>>,
           session |-> LoginSession(ADMIN_EMAIL, admin)] }

InitAccess ==
    /\ Loaded(F_shop)
    /\ threads = <<>>
    /\ model = TRUE
    /\ \E start \in AccessStarts :
          users = start.users /\ logs = start.logs /\ session = start.session

\* a search that matches, one that matches nothing, keywords without an
\* image, and an image that cannot be opened
AccessUploads ==
    { Upload(TRUE, FN_img, TRUE, RAW_shoe, K_none),
      Upload(TRUE, FN_img, TRUE, RAW_cat, K_zz),
      Upload(FALSE, <<>>, TRUE, RAW_shoe, K_air),
      Upload(TRUE, FN_img, FALSE, RAW_shoe, K_air) }

AccessRegister ==
    InTime /\ Serial /\ \E e \in {E_u, E_v} : register(RegisterForm(e, N_bob, N_Bob, P_6, P_6))

AccessLogin ==
    InTime /\ Serial
    /\ \E form \in {AdminLogin, LoginForm(E_U, P_6), LoginForm(E_u, P_5)} : login(form)

AccessLogout == InTime /\ Serial /\ logout

AccessProcess == InTime /\ Serial /\ \E upload \in AccessUploads : process(upload)

AccessReload == InTime /\ Serial /\ reload_csv

AccessProfile == InTime /\ Serial /\ profile

AccessMySearches == InTime /\ Serial /\ my_searches

AccessAdminDashboard == InTime /\ Serial /\ admin_dashboard

NextAccess ==
    \/ AccessRegister \/ AccessLogin \/ AccessLogout \/ AccessProcess \/ AccessReload
    \/ AccessProfile \/ AccessMySearches \/ AccessAdminDashboard

SpecAccess == InitAccess /\ [][NextAccess]_vars

\* the search history near its cap: the admin has logged in and searched n
\* times, n within MaxHeadroom of HISTORY_CAP
InitHistory ==
    \E n \in (HISTORY_CAP - MaxHeadroom)..HISTORY_CAP :
        LET catalog == load_product_database(F_shop)
        IN  /\ Loaded(F_shop)
            /\ threads = <<>>
            /\ model = TRUE
            /\ users = (ADMIN_EMAIL :>
                          WithSearches([AdminAccount(<<"0","0">>, 0 - LOG_CAP)
                                           EXCEPT !.last_login = Time(0 - HISTORY_CAP)],
                                       PastSearches(catalog, n)))
            /\ logs = PastSearchLogs(catalog, n)
            /\ session = AdminSession

HistoryProcess == InTime /\ Serial /\ \E upload \in SysUploads : process(upload)

HistoryLogin == InTime /\ Serial /\ login(AdminLogin)

HistoryLogout == InTime /\ Serial /\ logout

NextHistory == HistoryProcess \/ HistoryLogin \/ HistoryLogout

SpecHistory == InitHistory /\ [][NextHistory]_vars

\* the log after n logins and logouts of the admin, one a second from time
\* 1 - LOG_CAP on; the last one is a login if logged_in, a logout if not
PastLogs(n, logged_in) ==
    [i \in 1..n |->
        IF ((n - i) % 2 = 0) = logged_in
        THEN LogEntry(i - LOG_CAP, ADMIN_EMAIL, "LOGIN",
                      <<"Successful login from", REMOTE_ADDR>>, REMOTE_ADDR)
        ELSE LogEntry(i - LOG_CAP, ADMIN_EMAIL, "LOGOUT", <<"User logged out">>, REMOTE_ADDR)]

\* the activity log near its cap: n entries, n within MaxHeadroom of LOG_CAP
InitLog ==
    \E n \in (LOG_CAP - MaxHeadroom)..LOG_CAP : \E logged_in \in BOOLEAN :
        /\ Loaded(F_shop)
        /\ threads = <<>>
        /\ model = TRUE
        /\ users = (ADMIN_EMAIL :>
                      [AdminAccount(<<"0","0">>, 0 - LOG_CAP)
                          EXCEPT !.last_login = Time(IF logged_in THEN n - LOG_CAP
                                                     ELSE n - 1 - LOG_CAP)])
        /\ logs = PastLogs(n, logged_in)
        /\ session = IF logged_in THEN AdminSession ELSE EmptySession

LogRegister == InTime /\ Serial /\ \E form \in {RegisterForm(E_u, N_bob, N_Bob, P_6, P_6)} : register(form)

LogLogin == InTime /\ Serial /\ \E form \in {AdminLogin, LoginForm(E_u, P_6)} : login(form)

LogLogout == InTime /\ Serial /\ logout

LogProcess == InTime /\ Serial /\ \E upload \in SysUploads : process(upload)

LogReload == InTime /\ Serial /\ reload_csv

NextLog == LogRegister \/ LogLogin \/ LogLogout \/ LogProcess \/ LogReload

SpecLog == InitLog /\ [][NextLog]_vars

-----------------------------------------------------------------------------
(* Properties of the match step *)

\* the last request was a process() that completed matching
Searched == req.op = "process" /\ resp.flash.msg = "Found matching products"

\* the position of a record in the catalog
PositionIn(catalog, product) == CHOOSE k \in 1..Len(catalog) : catalog[k] = product

\* the maximal whitespace-free pieces of a text
IsToken(text, i, j) ==
    /\ i <= j
    /\ \A k \in i..j : ~IsSpace(text[k])
    /\ (i = 1 \/ IsSpace(text[i - 1]))
    /\ (j = Len(text) \/ IsSpace(text[j + 1]))

KeywordTokens(text) ==
    { SubSeq(text, i, j) : <<i, j>> \in { ij \in (1..Len(text)) \X (1..Len(text)) :
                                            IsToken(text, ij[1], ij[2]) } }

\* t occurs in s: s = prefix \o t \o suffix
Occurs(t, s) == \E a \in 0..Len(s) : \E b \in a..Len(s) : SubSeq(s, a + 1, b) = t

\* the 'name brand category' text of a record, lower-cased
Haystack(product) ==
    Lower(product.name) \o <<" ">> \o Lower(product.brand) \o <<" ">> \o Lower(product.category)

AsSet(seq) == { seq[i] : i \in 1..Len(seq) }

\* C1: the match list of process() is ordered by non-decreasing price (no
\* record is followed by a cheaper one), and records of equal price keep
\* their catalog order.
C1_SortedStable ==
    Searched =>
        LET m == resp.args.matches
        IN  \A i \in 1..Len(m) : \A j \in (i + 1)..Len(m) :
                /\ ~FloatLT(m[j].price, m[i].price)
                /\ FloatEQ(m[i].price, m[j].price)
                     => PositionIn(PRODUCT_DATABASE, m[i]) < PositionIn(PRODUCT_DATABASE, m[j])

\* C1 on catalogs whose prices are all numbers: the order and the stability hold.
C1_SortedStableOfNumbers ==
    (Searched /\ \A k \in 1..Len(PRODUCT_DATABASE) : ~PRODUCT_DATABASE[k].price.nan)
        => C1_SortedStable

\* C2: with non-empty trimmed keywords the match set is exactly the records
\* whose lower-cased 'name brand category' text contains a keyword token, and
\* the match list is the same whatever label the classifier returns.
C2_KeywordMatch ==
    (Searched /\ Strip(Lower(req.form.keywords)) # <<>>) =>
        LET words == KeywordTokens(Strip(Lower(req.form.keywords)))
        IN  /\ AsSet(resp.args.matches)
                 = { product \in AsSet(PRODUCT_DATABASE) :
                        \E word \in words : Occurs(word, Haystack(product)) }
            /\ \A raw \in RawLabels :
                   RankedMatches(PRODUCT_DATABASE, Prediction(model, raw),
                                 NormKeywords(req.form.keywords))
                     = resp.args.matches

\* a keyword search of two words that returned some records, left out a
\* record whose category matches the label, and kept one whose does not
C2_Witness ==
    /\ Searched
    /\ Cardinality(KeywordTokens(Strip(Lower(req.form.keywords)))) = 2
    /\ resp.args.matches # <<>>
    /\ \E product \in AsSet(PRODUCT_DATABASE) \ AsSet(resp.args.matches) :
           Occurs(Lower(resp.args.prediction), product.category)
    /\ \E product \in AsSet(resp.args.matches) :
           /\ ~Occurs(Lower(resp.args.prediction), product.category)
           /\ ~Occurs(product.category, Lower(resp.args.prediction))

\* the spellings of a label
Casings(label) == { label, Lower(label), [i \in 1..Len(label) |-> UpperChar(label[i])] }

\* C3: with empty keywords the match set is exactly the records whose
\* lower-cased category contains the lower-cased label or is contained in
\* it, whatever the casing of the label.
C3_CategoryMatch ==
    (Searched /\ Strip(Lower(req.form.keywords)) = <<>>) =>
        LET label == resp.args.prediction
        IN  /\ AsSet(resp.args.matches)
                 = { product \in AsSet(PRODUCT_DATABASE) :
                        \/ Occurs(Lower(label), Lower(product.category))
                        \/ Occurs(Lower(product.category), Lower(label)) }
            /\ \A spelling \in Casings(label) :
                   AsSet(FindMatches(PRODUCT_DATABASE, spelling, <<>>))
                     = AsSet(resp.args.matches)

\* a label search that kept a record whose category is longer than the
\* label, kept one whose category is shorter, and left one out
C3_Witness ==
    /\ Searched
    /\ Strip(Lower(req.form.keywords)) = <<>>
    /\ \E product \in AsSet(resp.args.matches) :
           Len(product.category) > Len(resp.args.prediction)
    /\ \E product \in AsSet(resp.args.matches) :
           Len(product.category) < Len(resp.args.prediction)
    /\ AsSet(PRODUCT_DATABASE) \ AsSet(resp.args.matches) # {}

\* C4: the global best price is the minimum price of the match list (None
\* for an empty list), and on the result page a record carries the
\* best-price badge exactly when its price equals that value.
C4_BestPrice ==
    /\ Searched =>
          LET m == resp.args.matches
              best == resp.args.global_best_price
          IN  IF m = <<>> THEN best.k = "None"
              ELSE /\ best.k = "float"
                   /\ \E i \in 1..Len(m) : m[i].price = best.f
                   /\ \A i \in 1..Len(m) : ~FloatLT(m[i].price, best.f)
    /\ (req.op = "index" /\ resp.kind = "page") =>
          \A i \in 1..Len(resp.shown) :
              resp.badges[i] <=> FloatEQ(resp.shown[i].price, resp.args.global_best_price.f)

\* C4 on catalogs whose prices are all numbers
C4_BestPriceOfNumbers ==
    (\A k \in 1..Len(PRODUCT_DATABASE) : ~PRODUCT_DATABASE[k].price.nan) => C4_BestPrice

-----------------------------------------------------------------------------
(* Properties of the loader *)

\* the catalog was built from the folder as it is now: at startup, or by the
\* reload just served
Fresh ==
    \/ req.op = "start"
    \/ req.op = "reload_csv" /\ resp.flash.cat = "success"

\* <<j, i>>: row i of file j is read and converted by the load
Converted(folder) ==
    { ji \in (1..Len(folder)) \X (1..(MaxRows + 2)) :
        LET file == folder[ji[1]]
        IN  /\ ji[2] <= Len(file.rows)
            /\ file.csv /\ file.status = "ok"
            /\ {"name", "price"} \subseteq file.cols
            /\ \A h \in 1..ji[2] : file.rows[h].price.k # "text" }

Before(q, p) == q[1] < p[1] \/ (q[1] = p[1] /\ q[2] < p[2])

\* the place of a row among the converted rows, in file then row order
Rank(rows, p) == Cardinality({ q \in rows : Before(q, p) }) + 1

\* C5: after every load the ids of the catalog are exactly 1..N, N its
\* length, and the records are in file-enumeration order, then row order.
C5_DenseIds ==
    /\ \A k \in 1..Len(PRODUCT_DATABASE) : PRODUCT_DATABASE[k].id = k
    /\ Fresh =>
          LET rows == Converted(datasets)
          IN  /\ Len(PRODUCT_DATABASE) = Cardinality(rows)
              /\ \A p \in rows :
                     LET product == PRODUCT_DATABASE[Rank(rows, p)]
                         file == datasets[p[1]]
                         row == file.rows[p[2]]
                     IN  /\ product.store = Title(file.base)
                         /\ product.name = Strip(Str(row.name))
                         /\ product.price = ToFloat(row.price)

\* a reload of a folder of two contributing files, one of which fails after
\* its first row
C5_Witness ==
    /\ req.op = "reload_csv" /\ resp.flash.cat = "success"
    /\ Len(PRODUCT_DATABASE) >= 3
    /\ Cardinality({ PRODUCT_DATABASE[k].store : k \in 1..Len(PRODUCT_DATABASE) }) = 2
    /\ \E j \in 1..Len(datasets) :
           /\ datasets[j].csv /\ datasets[j].status = "ok"
           /\ \E i \in 2..Len(datasets[j].rows) : datasets[j].rows[i].price.k = "text"

\* every .csv file of the folder parses and every price cell is a number or empty
ValidFolder(folder) ==
    \A j \in 1..Len(folder) :
        folder[j].csv =>
            /\ folder[j].status = "ok"
            /\ \A i \in 1..Len(folder[j].rows) : folder[j].rows[i].price.k # "text"

\* <<j, i>>: row i of file j supplies a name and a price
Complete(folder) ==
    { ji \in (1..Len(folder)) \X (1..(MaxRows + 2)) :
        LET file == folder[ji[1]]
        IN  /\ ji[2] <= Len(file.rows)
            /\ file.csv
            /\ {"name", "price"} \subseteq file.cols
            /\ ~file.rows[ji[2]].name.na
            /\ file.rows[ji[2]].price.k # "na" }

\* C6: the load of a valid folder returns as many records as there are rows
\* that supply both a name and a price; a row missing either gives no record.
C6_CompleteRowsOnly ==
    (Fresh /\ ValidFolder(datasets)) =>
        Len(PRODUCT_DATABASE) = Cardinality(Complete(datasets))

\* read_csv() raises on the file, or float() raises on one of its rows
FileFails(file) ==
    /\ file.csv
    /\ \/ file.status = "error"
       \/ /\ {"name", "price"} \subseteq file.cols
          /\ \E i \in 1..Len(file.rows) : file.rows[i].price.k = "text"

RecordsOf(file) ==
    { k \in 1..Len(PRODUCT_DATABASE) : PRODUCT_DATABASE[k].store = Title(file.base) }

\* C7: when a source file fails during the load, at parse time or at any
\* row, the load completes, no record of the failing file is in the catalog
\* and every record of every other file is.
C7_FailingFileLeftOut ==
    Fresh =>
        \A j \in 1..Len(datasets) :
            LET file == datasets[j]
            IN  /\ FileFails(file) => RecordsOf(file) = {}
                /\ (file.csv /\ ~FileFails(file) /\ {"name", "price"} \subseteq file.cols)
                      => Cardinality(RecordsOf(file)) = Len(file.rows)

\* C7 for a file that fails at parse time
C7_UnparsedFileLeftOut ==
    Fresh =>
        \A j \in 1..Len(datasets) :
            (datasets[j].csv /\ datasets[j].status = "error") => RecordsOf(datasets[j]) = {}

-----------------------------------------------------------------------------
(* Properties of the identity store *)

\* a field the form leaves blank: empty, or nothing but whitespace
Blank(text) == Strip(text) = <<>>

Rejected(response) ==
    response.kind = "redirect" /\ response.to = "register" /\ response.flash.cat = "danger"

Registered(response) ==
    response.kind = "redirect" /\ response.to = "login" /\ response.flash.cat = "success"

\* C8 as stated: a blank email, username, full name or password, a password
\* that differs from its confirmation or a password shorter than 6
\* characters is rejected with the store and the log unchanged; anything
\* else with an unused email adds exactly one account.
C8_AsStated ==
    [][ req'.op = "register" =>
          LET form == req'.form
          IN  IF \/ Blank(form.email) \/ Blank(form.username) \/ Blank(form.full_name)
                 \/ Blank(form.password)
                 \/ form.password # form.confirm_password
                 \/ Len(form.password) < 6
              THEN Rejected(resp') /\ UNCHANGED <<users, logs>>
              ELSE Lower(Strip(form.email)) \notin DOMAIN users
                     => /\ Registered(resp')
                        /\ DOMAIN users' = DOMAIN users \cup {Lower(Strip(form.email))}
                        /\ \A e \in DOMAIN users : users'[e] = users[e] ]_vars

\* C8: register() rejects, with the store and the log unchanged, an email,
\* username or full name that is blank after trimming, an empty password
\* (the password is not trimmed: six spaces are a password), a password
\* that differs from its confirmation and a password shorter than 6
\* characters; anything else with an unused email adds exactly one account.
C8_Validation ==
    [][ req'.op = "register" =>
          LET form == req'.form
          IN  IF \/ Blank(form.email) \/ Blank(form.username) \/ Blank(form.full_name)
                 \/ form.password = <<>>
                 \/ form.password # form.confirm_password
                 \/ Len(form.password) < 6
              THEN Rejected(resp') /\ UNCHANGED <<users, logs>>
              ELSE Lower(Strip(form.email)) \notin DOMAIN users
                     => /\ Registered(resp')
                        /\ DOMAIN users' = DOMAIN users \cup {Lower(Strip(form.email))}
                        /\ Cardinality(DOMAIN users') = Cardinality(DOMAIN users) + 1
                        /\ \A e \in DOMAIN users : users'[e] = users[e] ]_vars

\* a registration with a password of six spaces was accepted
C8_Witness ==
    /\ req.op = "register"
    /\ req.form.password = P_spaces
    /\ Registered(resp)
    /\ Lower(Strip(req.form.email)) \in DOMAIN users
    /\ Cardinality(DOMAIN users) = 2

\* C9: every key of the identity store is lower case, so there is at most
\* one account per lower-cased email, and register() with an email that is
\* a key once lower-cased fails, whatever its casing, and leaves every
\* account as it was.
C9_OneAccountPerEmail ==
    /\ [](\A e \in DOMAIN users : e = Lower(e))
    /\ [](\A e1, e2 \in DOMAIN users : Lower(e1) = Lower(e2) => e1 = e2)
    /\ [][ (req'.op = "register" /\ Lower(Strip(req'.form.email)) \in DOMAIN users)
              => Rejected(resp') /\ users' = users ]_vars

\* a registration under another casing of a registered user's email was
\* turned away as a duplicate
C9_Witness ==
    /\ req.op = "register"
    /\ req.form.email # Lower(Strip(req.form.email))
    /\ Lower(Strip(req.form.email)) \in DOMAIN users
    /\ Lower(Strip(req.form.email)) # ADMIN_EMAIL
    /\ resp.flash.msg = "Email already registered"

\* the one answer to a failed authentication
InvalidCredentials ==
    [kind |-> "redirect", to |-> "login",
     flash |-> [cat |-> "danger", msg |-> "Invalid email or password"],
     args |-> NoArgs, shown |-> <<>>, badges |-> <<>>]

\* C10: login() with an unknown email and login() with a known email and a
\* wrong password give the same response and leave the session, the store
\* and the log as they were.
C10_SameFailure ==
    [][ (/\ req'.op = "login"
         /\ Lower(Strip(req'.form.email)) # <<>> /\ req'.form.password # <<>>
         /\ \/ Lower(Strip(req'.form.email)) \notin DOMAIN users
            \/ Sha256(users[Lower(Strip(req'.form.email))].password.salt \o req'.form.password)
                 # users[Lower(Strip(req'.form.email))].password.hash)
          => resp' = InvalidCredentials /\ UNCHANGED <<users, logs, session>> ]_vars

\* both failures have been served on the same store: the last login named a
\* registered user with a wrong password, and an unregistered email is left
C10_Witness ==
    /\ req.op = "login"
    /\ Lower(Strip(req.form.email)) \in DOMAIN users \ {ADMIN_EMAIL}
    /\ ~verify_password(users[Lower(Strip(req.form.email))].password, req.form.password)
    /\ resp = InvalidCredentials
    /\ logs # <<>>

-----------------------------------------------------------------------------
(* Properties of the caps *)

\* C11: every search history has at most 50 entries, in chronological order;
\* a successful process() of a user whose history has 50 entries drops the
\* oldest entry and puts the new one last.
C11_HistoryCapped ==
    /\ [](\A e \in DOMAIN users :
            "searches" \in DOMAIN users[e] =>
                LET h == users[e].searches
                IN  /\ Len(h) <= 50
                    /\ \A i \in 1..(Len(h) - 1) : h[i].timestamp[1] <= h[i + 1].timestamp[1])
    /\ [][ (/\ req'.op = "process" /\ Searched'
            /\ LoggedIn(session) /\ session.user_email \in DOMAIN users
            /\ "searches" \in DOMAIN users[session.user_email]
            /\ Len(users[session.user_email].searches) = 50)
           => LET old == users[session.user_email].searches
                  new == users'[session.user_email].searches
              IN  /\ Len(new) = 50
                  /\ \A i \in 1..49 : new[i] = old[i + 1]
                  /\ new[50].timestamp = Time(clock)
                  /\ new[50].category = resp'.args.prediction
                  /\ new[50].matches_count = Len(resp'.args.matches) ]_vars

\* a search was recorded in a full history: 50 entries, the newest last and
\* the oldest of the start gone
C11_Witness ==
    /\ Searched
    /\ Len(users[ADMIN_EMAIL].searches) = 50
    /\ users[ADMIN_EMAIL].searches[50].timestamp = Time(clock - 1)
    /\ users[ADMIN_EMAIL].searches[1].timestamp[1] > 1 - 50

\* C12: the activity log has at most 1000 entries, in recording order; a
\* call of log_activity() on a log of 1000 entries drops the oldest entry and
\* puts the new one last, so the log is the 1000 entries recorded last.
C12_LogCapped ==
    /\ [](/\ Len(logs) <= 1000
          /\ \A i \in 1..(Len(logs) - 1) : logs[i].timestamp[1] <= logs[i + 1].timestamp[1])
    /\ [][ logs' # logs =>
             /\ logs'[Len(logs')].timestamp = Time(clock)
             /\ IF Len(logs) < 1000
                THEN Len(logs') = Len(logs) + 1 /\ SubSeq(logs', 1, Len(logs)) = logs
                ELSE Len(logs') = 1000 /\ \A i \in 1..999 : logs'[i] = logs[i + 1] ]_vars

\* two entries were recorded in a full log: 1000 entries, the newest last and
\* the two oldest of the start gone
C12_Witness ==
    /\ Len(logs) = 1000
    /\ logs[1000].timestamp = Time(2)
    /\ logs[999].timestamp = Time(1)
    /\ logs[1].timestamp[1] = 3 - 1000

-----------------------------------------------------------------------------
(* Properties of the degraded and the failing search *)

\* C19: without a classifier (model is None) process() takes the label
\* 'Unknown' and completes; with keywords the result is the keyword match,
\* without keywords it is the empty list.
C19_DegradedSearch ==
    (req.op = "process" /\ ~model /\ LoggedIn(session)
       /\ req.form.has_file /\ req.form.filename # <<>> /\ req.form.image_ok) =>
        /\ Searched
        /\ resp.args.prediction = <<"U","n","k","n","o","w","n">>
        /\ IF Strip(Lower(req.form.keywords)) # <<>>
           THEN AsSet(resp.args.matches)
                  = { product \in AsSet(PRODUCT_DATABASE) :
                         \E word \in KeywordTokens(Strip(Lower(req.form.keywords))) :
                             Occurs(word, Haystack(product)) }
           ELSE resp.args.matches = <<>>

\* C19 on catalogs in which no category is part of the word 'unknown'
C19_DegradedSearchOfNamedCategories ==
    (\A k \in 1..Len(PRODUCT_DATABASE) :
         ~Occurs(PRODUCT_DATABASE[k].category, <<"u","n","k","n","o","w","n">>))
      => C19_DegradedSearch

\* C20: when the image processing of process() fails the request ends with
\* a redirect and an error message, one entry of action 'ERROR' is appended
\* to the log, and the catalog and the identity store stay as they were.
C20_ImageFailure ==
    [][ (/\ req'.op = "process" /\ LoggedIn(session)
         /\ req'.form.has_file /\ req'.form.filename # <<>> /\ ~req'.form.image_ok)
          => /\ resp'.kind = "redirect" /\ resp'.to = "index"
             /\ resp'.flash = [cat |-> "danger", msg |-> "Error processing image"]
             /\ Len(logs') = Len(logs) + 1
             /\ SubSeq(logs', 1, Len(logs)) = logs
             /\ logs'[Len(logs')].action = "ERROR"
             /\ logs'[Len(logs')].user = session.user_email
             /\ users' = users
             /\ PRODUCT_DATABASE' = PRODUCT_DATABASE /\ CSV_FILES' = CSV_FILES ]_vars

\* a logged-in user's upload could not be processed and the error was logged
\* after the login
C20_Witness ==
    /\ req.op = "process" /\ ~req.form.image_ok
    /\ resp.flash.msg = "Error processing image"
    /\ Len(logs) = 2
    /\ logs[1].action = "LOGIN" /\ logs[2].action = "ERROR"

(***************************************************************************)
(* Properties of the handlers on files that fail                            *)
(***************************************************************************)

\* the handler of th answered as it does when nothing goes wrong: a redirect
\* with a success or info message, or the error redirect of process() for
\* an image that cannot be processed
NormalOutcome(th) ==
    /\ th.out.kind = "redirect"
    /\ \/ th.out.flash.cat \in {"success", "info"}
       \/ th.op = "process" /\ ~th.form.image_ok
          /\ th.out.flash.msg = "Error processing image"

\* C13: a failure of log_activity(), on the read or on the write of the log
\* file, never fails the operation that called it: every request whose
\* log_activity() met a failure is answered with the operation's normal
\* outcome.
C13_LoggingNeverFailsCaller ==
    \A c \in DOMAIN threads :
        (threads[c].pc = "idle" /\ (threads[c].log_unread \/ threads[c].log_unwritten))
            => NormalOutcome(threads[c])

\* the part of C13 that holds: with users.json in order, a log file that
\* cannot be read or parsed does not fail the caller
C13_UnreadLogNeverFailsCaller ==
    \A c \in DOMAIN threads :
        (/\ threads[c].pc = "idle"
         /\ threads[c].log_unread /\ ~threads[c].log_unwritten
         /\ io.users = HealthyFile)
            => NormalOutcome(threads[c])

\* C17: when users.json or logs.json cannot be read or parsed, the
\* operation that needed it stops there: it never goes on to write the
\* file from the empty structure it fell back to.
C17_UnreadableAborts ==
    \A c \in DOMAIN threads :
        /\ threads[c].users_failed => threads[c].pc \notin {"save_open", "save_close"}
        /\ threads[c].log_unread => threads[c].pc \notin {"log_open", "log_close"}

(***************************************************************************)
(* Properties of concurrent requests                                        *)
(***************************************************************************)

\* the image of the process() request of th was opened and classified
Searching(th) == th.op = "process" /\ th.phase # "" /\ th.form.image_ok

\* C14: a process() request that runs while reload_csv() runs matches
\* against the complete catalog from before the reload or the complete
\* catalog from after it: what its loop has read is at every moment the
\* beginning of one of the two, and once the loop is over it has read the
\* whole of that catalog and its matches are the ranked matches of it.
C14_WholeCatalog ==
    \A c \in DOMAIN threads :
        LET th == threads[c]
        IN  Searching(th) =>
              \E catalog \in {load_product_database(F_old), load_product_database(datasets)} :
                  /\ th.pos <= Len(catalog)
                  /\ th.seen = SubSeq(catalog, 1, th.pos)
                  /\ th.pc # "scan" =>
                        /\ th.seen = catalog
                        /\ th.matches = RankedMatches(catalog, th.prediction,
                                                      NormKeywords(th.form.keywords))

\* a process() request is in the middle of its loop over the old catalog
\* when reload_csv() has bound the global to the new one
C14_Witness ==
    \E c \in DOMAIN threads :
        /\ Searching(threads[c]) /\ threads[c].pc = "scan"
        /\ threads[c].pos > 0 /\ threads[c].pos < Len(threads[c].catalog)
        /\ threads[c].catalog = load_product_database(F_old)
        /\ PRODUCT_DATABASE = load_product_database(datasets)
        /\ PRODUCT_DATABASE # threads[c].catalog

\* C15: writes of users.json and logs.json are last-write-wins on the whole
\* file: a write that ends with a complete file leaves exactly the
\* structure its writer built from what it had loaded, whatever was
\* written since; so two concurrent requests can both succeed with the
\* update of one of them lost (C15_Witness).
C15_LastWriteWins ==
    [][\A c \in DOMAIN threads :
          /\ (/\ threads[c].pc = "save_close" /\ threads'[c].pc # "save_close"
              /\ io'.users.text = "whole")
                => users' = threads[c].users
          /\ (/\ threads[c].pc = "log_close" /\ threads'[c].pc # "log_close"
              /\ io'.logs.text = "whole")
                => logs' = threads[c].logs]_vars

\* the response of a register() that succeeded
RegisteredBy(th) == th.pc = "idle" /\ th.op = "register" /\ Registered(th.out)

\* two register() requests for different emails have both answered with
\* success, users.json is complete and holds only one of the two accounts
C15_Witness ==
    /\ \A c \in DOMAIN threads : RegisteredBy(threads[c])
    /\ io.users.text = "whole"
    /\ \E c, d \in DOMAIN threads :
          /\ NormEmail(threads[c].form.email) \in DOMAIN users
          /\ NormEmail(threads[d].form.email) \notin DOMAIN users

\* C16: no operation deletes an account: whenever all requests are answered
\* and users.json is complete, it holds the admin account it started with
\* and the account of every register() that answered with success.
C16_AccountsKept ==
    (/\ \A c \in DOMAIN threads : threads[c].pc = "idle"
     /\ io.users.text = "whole")
        => /\ ADMIN_EMAIL \in DOMAIN users
           /\ \A c \in DOMAIN threads :
                 RegisteredBy(threads[c]) => NormEmail(threads[c].form.email) \in DOMAIN users

\* C18: the identity store is never left or observed partially written:
\* users.json never holds a part of a store, and no load_users() finds
\* the file in a state it cannot parse.
C18_NeverPartial ==
    /\ io.users.text # "torn"
    /\ \A c \in DOMAIN threads : ~threads[c].users_failed

(***************************************************************************)
(* Properties of the source count                                           *)
(***************************************************************************)

\* pd.read_csv(file_path) returned a table
OpensOk(file) == file.status # "error"

\* the catalog and CSV_FILES were just built from the folder: at import, or
\* by a reload_csv() that got past login_required
JustLoaded ==
    req.op = "start" \/ (req.op = "reload_csv" /\ resp.flash.msg = "Database reloaded!")

\* C26: the source count, CSV_FILES, is the number of source files the load
\* that built the catalog opened: a file that could not be opened is not
\* counted.
C26_CountOfOpened ==
    JustLoaded => Len(CSV_FILES) = Len(SelectSeq(ListCsv(datasets), OpensOk))

\* what holds of the count: it is the number of .csv files the folder lists,
\* opened or not
C26_CountOfListed ==
    JustLoaded => Len(CSV_FILES) = Len(ListCsv(datasets))

(***************************************************************************)
(* Properties of the log under concurrent requests                          *)
(***************************************************************************)

\* the request of th is answered and its last log_activity() wrote the file
Logged(th) ==
    /\ th.pc = "idle" /\ th.out.kind = "redirect"
    /\ th.entry.action # "" /\ th.logs # <<>> /\ ~th.log_unwritten

\* C25: the activity log is append-only for every interleaving of
\* log_activity() calls: once all requests are answered and logs.json is
\* complete, the entries the log started with are still its first entries
\* and the entry every answered request wrote is in it.
C25_AppendOnly ==
    (/\ \A c \in DOMAIN threads : threads[c].pc = "idle"
     /\ io.logs.text = "whole")
        => /\ Len(logs) >= Cardinality(DOMAIN threads)
           /\ \A i \in 1..Cardinality(DOMAIN threads) : logs[i].timestamp = Time(0)
           /\ \A c \in DOMAIN threads :
                 Logged(threads[c]) =>
                    \E i \in 1..Len(logs) : logs[i] = threads[c].logs[Len(threads[c].logs)]

(***************************************************************************)
(* Properties of sessions, roles and access                                 *)
(***************************************************************************)

\* C21: admin_dashboard is served only when the session names an email that
\* is a key of the identity store with role 'admin'; a request with no
\* session, with the session of a role-'user' account or with a session
\* whose email is not in the store is redirected.
C21_AdminOnly ==
    req.op = "admin_dashboard" =>
        /\ resp.kind \in {"page", "redirect"}
        /\ resp.kind = "page" <=>
              /\ LoggedIn(session)
              /\ session.user_email \in DOMAIN users
              /\ users[session.user_email].role = "admin"
        /\ resp.kind = "page" => resp.to = "admin_dashboard"
        /\ resp.kind = "redirect" =>
              resp.to = (IF LoggedIn(session) THEN "index" ELSE "login")

\* the session of the admin, whose account is no longer in the store, asked
\* for the admin page and was redirected
C21_Witness ==
    /\ req.op = "admin_dashboard"
    /\ LoggedIn(session) /\ session.role = "admin"
    /\ session.user_email \notin DOMAIN users
    /\ resp = AdminRequiredResponse

\* the admin page was served, and refused to a role-'user' session and to a
\* visitor without a session
C21_Served == req.op = "admin_dashboard" /\ resp.kind = "page"

C21_RefusedToUser ==
    /\ req.op = "admin_dashboard" /\ LoggedIn(session)
    /\ session.user_email \in DOMAIN users /\ session.role = "user"
    /\ resp = AdminRequiredResponse

C21_RefusedToVisitor ==
    req.op = "admin_dashboard" /\ ~LoggedIn(session) /\ resp = LoginRequiredResponse

\* C22: every process() that completes matching, also with no match,
\* answers with a success message, appends exactly one SEARCH entry whose
\* actor is the session email to the log, and appends exactly one entry
\* with the label, the keywords and the number of matches to the search
\* history of the session's account.
C22_SearchRecorded ==
    [][(/\ req'.op = "process" /\ resp'.flash.msg = "Found matching products"
        /\ session.user_email \in DOMAIN users
        /\ Len(logs) < LOG_CAP
        /\ Len(SearchesOf(users, session.user_email)) < HISTORY_CAP)
       => LET email == session.user_email
              old == SearchesOf(users, email)
              new == users'[email].searches
          IN  /\ resp'.kind = "redirect" /\ resp'.flash.cat = "success"
              /\ Len(logs') = Len(logs) + 1
              /\ SubSeq(logs', 1, Len(logs)) = logs
              /\ logs'[Len(logs')].action = "SEARCH"
              /\ logs'[Len(logs')].user = email
              /\ Len(new) = Len(old) + 1
              /\ SubSeq(new, 1, Len(old)) = old
              /\ new[Len(new)].category = resp'.args.prediction
              /\ new[Len(new)].keywords = NormKeywords(req'.form.keywords)
              /\ new[Len(new)].matches_count = Len(resp'.args.matches)]_vars

\* a search on a catalog with records matched nothing, was answered as a
\* success and is the last entry of the log and the one entry of the history
C22_Witness ==
    /\ Searched /\ resp.args.matches = <<>> /\ resp.flash.cat = "success"
    /\ PRODUCT_DATABASE # <<>>
    /\ logs[Len(logs)].action = "SEARCH"
    /\ LET h == users[session.user_email].searches
       IN  Len(h) = 1 /\ h[1].matches_count = 0

\* C23: a submission to process() with keywords and no image is matched
\* against the catalog by its keywords, and the result is returned and
\* recorded in the log.
C23_KeywordsWithoutImage ==
    (/\ req.op = "process" /\ LoggedIn(session)
     /\ ~req.form.has_file
     /\ NormKeywords(req.form.keywords) # <<>>)
        => /\ resp.kind = "redirect" /\ resp.flash.cat = "success"
           /\ resp.args.matches = RankedMatches(PRODUCT_DATABASE, S_Unknown,
                                                NormKeywords(req.form.keywords))
           /\ logs # <<>> /\ logs[Len(logs)].action = "SEARCH"

\* the last request was a login() that succeeded
LoggedInNow == req.op = "login" /\ resp.flash.msg = "Welcome back"

\* C24: after a successful login() the session carries the lower-cased
\* email and the username, full name and role the store held for that
\* account, the account's last_login is set, exactly one LOGIN entry for
\* that email was appended to the log, and no other account changed.
C24_LoginEffects ==
    [][LoggedInNow' =>
          LET email == Lower(Strip(req'.form.email))
          IN  /\ email \in DOMAIN users
              /\ session' = [user_email |-> email,
                             user_name  |-> users[email].username,
                             full_name  |-> users[email].full_name,
                             role       |-> users[email].role]
              /\ users'[email].last_login # NoTime
              /\ Len(logs) < LOG_CAP =>
                    /\ Len(logs') = Len(logs) + 1
                    /\ SubSeq(logs', 1, Len(logs)) = logs
                    /\ logs'[Len(logs')].action = "LOGIN"
                    /\ logs'[Len(logs')].user = email
              /\ DOMAIN users' = DOMAIN users
              /\ \A e \in DOMAIN users : e # email => users'[e] = users[e]]_vars

\* the admin logged in, with another account in the store, and the session
\* carries the role 'admin'
C24_Witness ==
    /\ LoggedInNow
    /\ session.user_email = ADMIN_EMAIL /\ session.role = "admin"
    /\ E_u \in DOMAIN users
    /\ users[ADMIN_EMAIL].last_login # NoTime
    /\ logs[Len(logs)].action = "LOGIN"

\* u@x logged in by typing the email in upper case with blanks around it
C24_LoggedInAsTyped ==
    /\ LoggedInNow /\ req.form.email = E_U
    /\ session.user_email = E_u /\ session.role = "user"

\* the routes behind login_required
Protected == {"process", "reload_csv", "profile", "my_searches"}

\* C27: a request without 'user_email' in its session to process,
\* reload_csv, profile or my_searches is redirected to login and leaves the
\* catalog, the identity store and the activity log as they were.
C27_VisitorChangesNothing ==
    [][(~LoggedIn(session) /\ req'.op \in Protected)
          => /\ resp'.kind = "redirect" /\ resp'.to = "login"
             /\ PRODUCT_DATABASE' = PRODUCT_DATABASE
             /\ CSV_FILES' = CSV_FILES
             /\ users' = users
             /\ logs' = logs
             /\ session' = session]_vars

\* a visitor without a session posted a searchable image to process() and
\* was sent to login
C27_Witness ==
    /\ req.op = "process" /\ ~LoggedIn(session)
    /\ req.form.has_file /\ req.form.image_ok
    /\ resp = LoginRequiredResponse

\* C28: no operation grants or changes a role: the only account with role
\* 'admin' is the one init_users() creates, an account that stays in the
\* store keeps its role, and an account that enters the store is created by
\* register() with role 'user'.
C28_RolesFixed ==
    /\ [](\A e \in DOMAIN users :
             /\ users[e].role \in {"admin", "user"}
             /\ users[e].role = "admin" => e = ADMIN_EMAIL)
    /\ [][\A e \in DOMAIN users' :
             IF e \in DOMAIN users
             THEN users'[e].role = users[e].role
             ELSE req'.op = "register" /\ users'[e].role = "user"]_vars

\* register() added v@x with role 'user' to a store that holds the admin
C28_Witness ==
    /\ req.op = "register" /\ Registered(resp)
    /\ E_v \in DOMAIN users /\ users[E_v].role = "user"
    /\ ADMIN_EMAIL \in DOMAIN users /\ users[ADMIN_EMAIL].role = "admin"

\* C29: logout() leaves the session empty and the identity store as it
\* was, and appends one LOGOUT entry when, and only when, a session existed;
\* with an empty session every request to process, reload_csv, profile,
\* my_searches or admin_dashboard is sent to login, and only a successful
\* login() ends that.
C29_Logout ==
    /\ [][req'.op = "logout" =>
             /\ session' = EmptySession
             /\ users' = users
             /\ IF LoggedIn(session)
                THEN Len(logs) < LOG_CAP =>
                        logs' = Append(logs, LogEntry(clock, session.user_email, "LOGOUT",
                                                      <<"User logged out">>, REMOTE_ADDR))
                ELSE logs' = logs]_vars
    /\ [][(~LoggedIn(session) /\ req'.op \in Protected \cup {"admin_dashboard"})
             => resp'.kind = "redirect" /\ resp'.to = "login" /\ ~LoggedIn(session')]_vars
    /\ [][(~LoggedIn(session) /\ LoggedIn(session'))
             => req'.op = "login" /\ resp'.flash.msg = "Welcome back"]_vars

\* the admin logged out and then asked for the admin page: the last log
\* entry is the LOGOUT, the request was sent to login
C29_Witness ==
    /\ req.op = "admin_dashboard" /\ ~LoggedIn(session)
    /\ resp = LoginRequiredResponse
    /\ logs[Len(logs)].action = "LOGOUT" /\ logs[Len(logs)].user = ADMIN_EMAIL

\* a logout without a session wrote no log entry
C29_LogoutOfVisitor ==
    /\ req.op = "logout" /\ clock = 1
    /\ \A i \in 1..Len(logs) : logs[i].action # "LOGOUT"

\* every field of every account but field `own` of account `email` is in
\* store `after` what it was in store `before`
OnlyChanged(before, after, email, own) ==
    /\ DOMAIN after = DOMAIN before
    /\ \A e \in DOMAIN before :
          /\ DOMAIN after[e] \ {own} = DOMAIN before[e] \ {own}
          /\ e # email => after[e] = before[e]
          /\ \A k \in DOMAIN before[e] \ {own} : after[e][k] = before[e][k]

\* C30: when requests run one at a time, a successful login() changes only
\* the last_login of the authenticating account and a successful process()
\* changes only the searches list of the session's account, to which it
\* adds without touching the entries already there.
C30_OwnPartOnly ==
    [][/\ LoggedInNow' =>
            OnlyChanged(users, users', Lower(Strip(req'.form.email)), "last_login")
       /\ Searched' =>
            /\ OnlyChanged(users, users', session.user_email, "searches")
            /\ LET old == SearchesOf(users, session.user_email)
                   new == SearchesOf(users', session.user_email)
               IN  (session.user_email \in DOMAIN users /\ Len(old) < HISTORY_CAP)
                      => Len(new) = Len(old) + 1 /\ SubSeq(new, 1, Len(old)) = old]_vars

\* u@x, logged in, searched twice: the history has two entries and the
\* store still holds the admin account
C30_Witness ==
    /\ Searched /\ session.user_email = E_u
    /\ Len(users[E_u].searches) = 2
    /\ users[E_u].last_login # NoTime /\ users[E_u].uploads_count = 0
    /\ ADMIN_EMAIL \in DOMAIN users

\* the admin logged in while u@x has a search in the history
C30_LoginBesideHistory ==
    /\ LoggedInNow /\ session.user_email = ADMIN_EMAIL
    /\ E_u \in DOMAIN users /\ Len(users[E_u].searches) = 1

====
